---- MODULE Spec2Model ----
(***************************************************************************)
(* Nightwatch: the incident resolution engine.                             *)
(*                                                                         *)
(* The module models, from the TypeScript sources,                         *)
(*   - the command validator (execution/validator.ts),                     *)
(*   - the command executor (execution/executor.ts),                       *)
(*   - the capability handlers (capabilities/<name>/capability.ts),        *)
(*   - the orchestrator loop (orchestration/workflow.ts).                  *)
(*                                                                         *)
(* Strings that the code inspects character by character (commands,        *)
(* container names, command output) are tuples of one-character strings.   *)
(* An absent value (null in the source) is the record Null.                *)
(***************************************************************************)
EXTENDS Integers, Sequences, FiniteSets, TLC

\* ------------------------------------------------------------------------
\* Bounds of the model
\* ------------------------------------------------------------------------

\* Largest value of policy.constraints.maxActionsPerIncident explored.
MaxAttemptsBound == 2

\* Largest number of facts the knowledge file holds in the explored runs.
MaxFacts == 1

\* Longest list of steps handed to executeCommands on its own.
MaxSteps == 3

\* MAX_BUFFER_SIZE of startMonitoring, 100 in the source, scaled down.
MAX_BUFFER_SIZE == 3

\* Largest number of events that pass the filter in the explored runs.
MaxEvents == 6

\* Largest number of requests of the tool loop of runAgent in the explored
\* runs.
MaxRequests == 3

\* the windowMs main hands to startMonitoring
windowMs == 10000

\* ------------------------------------------------------------------------
\* Characters and strings
\* ------------------------------------------------------------------------

Null == [null |-> TRUE]

UPPER ==
    <<"A", "B", "C", "D", "E", "F", "G", "H", "I", "J", "K", "L", "M",
      "N", "O", "P", "Q", "R", "S", "T", "U", "V", "W", "X", "Y", "Z">>

LOWER ==
    <<"a", "b", "c", "d", "e", "f", "g", "h", "i", "j", "k", "l", "m",
      "n", "o", "p", "q", "r", "s", "t", "u", "v", "w", "x", "y", "z">>

\* The grave accent U+0060, which a TLA+ string cannot quote.
BACKTICK == "grave"

Range(f) == {f[i] : i \in DOMAIN f}

IsLetter(c) == c \in Range(UPPER) \cup Range(LOWER)

\* \w of a JavaScript regular expression
IsWord(c) ==
    \/ IsLetter(c)
    \/ c \in {"0", "1", "2", "3", "4", "5", "6", "7", "8", "9"}
    \/ c = "_"

\* \s of a JavaScript regular expression (the characters the model uses)
IsSpace(c) == c \in {" ", "\t", "\n"}

ToLower(c) ==
    IF c \in Range(UPPER)
    THEN LOWER[CHOOSE k \in DOMAIN UPPER : UPPER[k] = c]
    ELSE c

Lower(s) == [i \in DOMAIN s |-> ToLower(s[i])]

\* String.prototype.trim
RECURSIVE TrimStart(_)
TrimStart(s) ==
    IF s # <<>> /\ IsSpace(Head(s)) THEN TrimStart(Tail(s)) ELSE s

RECURSIVE TrimEnd(_)
TrimEnd(s) ==
    IF s # <<>> /\ IsSpace(s[Len(s)])
    THEN TrimEnd(SubSeq(s, 1, Len(s) - 1))
    ELSE s

Trim(s) == TrimEnd(TrimStart(s))

\* the literal w occurs in s at position i
MatchAt(s, i, w) ==
    /\ i >= 1
    /\ i + Len(w) - 1 <= Len(s)
    /\ SubSeq(s, i, i + Len(w) - 1) = w

\* the same under the /i flag (w is given in lower case)
MatchAtI(s, i, w) ==
    /\ i >= 1
    /\ i + Len(w) - 1 <= Len(s)
    /\ Lower(SubSeq(s, i, i + Len(w) - 1)) = w

Contains(s, w) == \E i \in 1..Len(s) : MatchAt(s, i, w)

\* \b between positions i-1 and i of s
WordBoundary(s, i) ==
    LET before == i - 1 >= 1 /\ i - 1 <= Len(s) /\ IsWord(s[i - 1])
        after  == i >= 1 /\ i <= Len(s) /\ IsWord(s[i])
    IN  before # after

\* \s+ : the positions j that can follow one or more blanks starting at i
AfterBlanks1(s, i) ==
    {j \in (i + 1)..(Len(s) + 1) : \A k \in i..(j - 1) : IsSpace(s[k])}

\* \s* : the positions j that can follow zero or more blanks starting at i
AfterBlanks0(s, i) == {i} \cup AfterBlanks1(s, i)

\* ------------------------------------------------------------------------
\* Literals of the validator's patterns
\* ------------------------------------------------------------------------

W_sh == <<"s", "h">>
W_bash == <<"b", "a", "s", "h">>

\* /^(?!docker\s)/i
NotDocker(s) ==
    ~(/\ MatchAtI(s, 1, <<"d", "o", "c", "k", "e", "r">>)
      /\ Len(s) >= 7
      /\ IsSpace(s[7]))

\* /\bsh\s+-c\b/i and /\bbash\s+-c\b/i, for shell = sh or bash
ShellDashC(s, shell) ==
    \E i \in 1..Len(s) :
        /\ WordBoundary(s, i)
        /\ MatchAtI(s, i, shell)
        /\ \E j \in AfterBlanks1(s, i + Len(shell)) :
              /\ MatchAtI(s, j, <<"-", "c">>)
              /\ WordBoundary(s, j + 2)

\* /\b[a-zA-Z_][a-zA-Z0-9_]*=/
Assignment(s) ==
    \E i \in 1..Len(s) :
        /\ WordBoundary(s, i)
        /\ (IsLetter(s[i]) \/ s[i] = "_")
        /\ \E j \in (i + 1)..Len(s) :
              /\ s[j] = "="
              /\ \A k \in (i + 1)..(j - 1) : IsWord(s[k])

\* /rm\s+-rf\s+\//  (tail = "/")  and  /rm\s+-rf\s+\/\*/  (tail = "/*")
RmRf(s, tail) ==
    \E i \in 1..Len(s) :
        /\ MatchAt(s, i, <<"r", "m">>)
        /\ \E j \in AfterBlanks1(s, i + 2) :
              /\ MatchAt(s, j, <<"-", "r", "f">>)
              /\ \E k \in AfterBlanks1(s, j + 3) : MatchAt(s, k, tail)

\* /dd\s+if=/
DdIf(s) ==
    \E i \in 1..Len(s) :
        /\ MatchAt(s, i, <<"d", "d">>)
        /\ \E j \in AfterBlanks1(s, i + 2) : MatchAt(s, j, <<"i", "f", "=">>)

\* />\s*\/dev\/sd[a-z]/
DiskWrite(s) ==
    \E i \in 1..Len(s) :
        /\ s[i] = ">"
        /\ \E j \in AfterBlanks0(s, i + 1) :
              /\ MatchAt(s, j, <<"/", "d", "e", "v", "/", "s", "d">>)
              /\ j + 7 <= Len(s)
              /\ s[j + 7] \in Range(LOWER)

\* /curl\s+.*\|\s*(bash|sh)/i and /wget\s+.*\|\s*(bash|sh)/i
RemoteExec(s, tool) ==
    \E i \in 1..Len(s) :
        /\ MatchAtI(s, i, tool)
        /\ \E j \in AfterBlanks1(s, i + Len(tool)) :
              \E p \in j..Len(s) :
                  /\ s[p] = "|"
                  /\ \A q \in j..(p - 1) : s[q] # "\n"
                  /\ \E k \in AfterBlanks0(s, p + 1) :
                        MatchAtI(s, k, W_bash) \/ MatchAtI(s, k, W_sh)

\* The reasons of BLOCKED_PATTERNS, in the order of the source.
BLOCKED_PATTERNS ==
    << "Command must start with 'docker'",
       "Shell invocation not allowed",
       "Shell invocation not allowed",
       "Pipes not allowed",
       "Output redirection not allowed",
       "Input redirection not allowed",
       "Command substitution not allowed",
       "Backtick substitution not allowed",
       "Command chaining (&&) not allowed",
       "Command chaining (||) not allowed",
       "Command chaining (;) not allowed",
       "Variable assignment not allowed",
       "Subshell not allowed",
       "Subshell not allowed",
       "Destructive rm pattern blocked",
       "Destructive rm pattern blocked",
       "Destructive dd pattern blocked",
       "Filesystem formatting blocked",
       "Direct disk write blocked",
       "Remote code execution blocked",
       "Remote code execution blocked" >>

\* pattern.test(s) for the k-th entry of BLOCKED_PATTERNS
PatternTest(k, s) ==
    CASE k = 1  -> NotDocker(s)
      [] k = 2  -> ShellDashC(s, W_sh)
      [] k = 3  -> ShellDashC(s, W_bash)
      [] k = 4  -> Contains(s, <<"|">>)
      [] k = 5  -> Contains(s, <<">">>)
      [] k = 6  -> Contains(s, <<"<">>)
      [] k = 7  -> Contains(s, <<"$", "(">>)
      [] k = 8  -> Contains(s, <<BACKTICK>>)
      [] k = 9  -> Contains(s, <<"&", "&">>)
      [] k = 10 -> Contains(s, <<"|", "|">>)
      [] k = 11 -> Contains(s, <<";">>)
      [] k = 12 -> Assignment(s)
      [] k = 13 -> Contains(s, <<"(">>)
      [] k = 14 -> Contains(s, <<")">>)
      [] k = 15 -> RmRf(s, <<"/">>)
      [] k = 16 -> RmRf(s, <<"/", "*">>)
      [] k = 17 -> DdIf(s)
      [] k = 18 -> Contains(s, <<"m", "k", "f", "s">>)
      [] k = 19 -> DiskWrite(s)
      [] k = 20 -> RemoteExec(s, <<"c", "u", "r", "l">>)
      [] k = 21 -> RemoteExec(s, <<"w", "g", "e", "t">>)

\* MentionsContainer without the word boundaries
MentionsContainer_substring(command, name) ==
    \E i \in 1..Len(command) : MatchAt(command, i, name)

\* new RegExp(`\\b${escapeRegex(name)}\\b`).test(command)
MentionsContainer(command, name) ==
    \E i \in 1..Len(command) :
        /\ WordBoundary(command, i)
        /\ MatchAt(command, i, name)
        /\ WordBoundary(command, i + Len(name))

\* the matches computed by findTargetContainer and by validateCommand
ContainerMatches(command, knownContainers) ==
    {name \in knownContainers : MentionsContainer(command, name)}

\* findTargetContainer: the single matching name, or <<>> for null (the
\* caller tests the outcome with !target, which the empty string fails too)
findTargetContainer(command, knownContainers) ==
    LET matches == ContainerMatches(command, knownContainers)
    IN  IF Cardinality(matches) = 1
        THEN CHOOSE name \in matches : TRUE
        ELSE <<>>

Accepted == [ok |-> TRUE]

\* A reason text: the fixed part, the step number it interpolates (0 when
\* none) and the container names it lists (empty when none).
Reason(text, n, names) == [text |-> text, n |-> n, names |-> names]

\* the CommandValidationError thrown for command; names are the matches the
\* message lists with matches.join(", ")
CommandValidationError(command, reason, names) ==
    [ok |-> FALSE, command |-> command, reason |-> Reason(reason, 0, names)]

\* validateCommand: Accepted, or the CommandValidationError it throws
validateCommand(command, knownContainers) ==
    LET trimmed == Trim(command)
        hits == {k \in DOMAIN BLOCKED_PATTERNS : PatternTest(k, trimmed)}
        matches == ContainerMatches(trimmed, knownContainers)
    IN  IF trimmed = <<>>
        THEN CommandValidationError(command, "Empty command not allowed", {})
        ELSE IF hits # {}
        THEN CommandValidationError(command,
                 BLOCKED_PATTERNS[CHOOSE k \in hits : \A h \in hits : k <= h],
                 {})
        ELSE IF findTargetContainer(trimmed, knownContainers) = <<>>
        THEN IF matches = {}
             THEN CommandValidationError(command,
                      "Command does not reference any known container", {})
             ELSE CommandValidationError(command,
                      "Command references multiple containers", matches)
        ELSE Accepted

\* assertCommandsValid: Accepted, or the error of the first rejected step
RECURSIVE assertCommandsValid(_, _)
assertCommandsValid(steps, knownContainers) ==
    IF steps = <<>>
    THEN Accepted
    ELSE LET verdict == validateCommand(Head(steps).action, knownContainers)
         IN  IF verdict.ok
             THEN assertCommandsValid(Tail(steps), knownContainers)
             ELSE verdict

\* ------------------------------------------------------------------------
\* Command executor (execution/executor.ts)
\* ------------------------------------------------------------------------

ErrNoSuch ==
    <<"E", "r", "r", "o", "r", ":", " ", "N", "o", " ", "s", "u", "c", "h",
      " ", "c", "o", "n", "t", "a", "i", "n", "e", "r", "\n">>

\* What child_process.exec hands to the callback of execCmd: the error
\* (Null, an exit with a code, or a kill by a signal), stdout and stderr.
ExecOutcomes ==
    { [error |-> Null, stdout |-> <<"f", "a", "l", "s", "e", "\n">>,
       stderr |-> <<>>],
      [error |-> [code |-> 1], stdout |-> <<>>, stderr |-> ErrNoSuch] }

\* execCmd: the CommandResult resolved for one outcome of exec
execCmd(raw) ==
    LET exitCode ==
            IF raw.error = Null THEN 0
            ELSE IF "code" \in DOMAIN raw.error /\ raw.error.code # 0
                 THEN raw.error.code
                 ELSE 1
        signalled == raw.error # Null /\ "signal" \in DOMAIN raw.error
    IN  [success |-> exitCode = 0 /\ ~signalled,
         exitCode |-> exitCode,
         stdout |-> Trim(raw.stdout),
         stderr |-> Trim(raw.stderr)]

\* executeFrom that goes on after a failing command
RECURSIVE executeFrom_noStop(_, _, _, _)
executeFrom_noStop(steps, raws, i, results) ==
    IF i >= Len(steps)
    THEN [results |-> results, failedAtStep |-> -1]
    ELSE LET command == steps[i + 1].action
             cmdResult == execCmd(raws[i + 1])
             pushed == Append(results,
                           [step |-> command,
                            status |-> IF cmdResult.success
                                       THEN "success" ELSE "failure",
                            exitCode |-> cmdResult.exitCode,
                            stdout |-> cmdResult.stdout,
                            stderr |-> cmdResult.stderr])
         IN  executeFrom_noStop(steps, raws, i + 1, pushed)

\* the loop body of executeCommands from index i (0-based) on
RECURSIVE executeFrom(_, _, _, _)
executeFrom(steps, raws, i, results) ==
    IF i >= Len(steps)
    THEN [results |-> results, failedAtStep |-> -1]
    ELSE LET command == steps[i + 1].action
             cmdResult == execCmd(raws[i + 1])
             pushed == Append(results,
                           [step |-> command,
                            status |-> IF cmdResult.success
                                       THEN "success" ELSE "failure",
                            exitCode |-> cmdResult.exitCode,
                            stdout |-> cmdResult.stdout,
                            stderr |-> cmdResult.stderr])
         IN  IF ~cmdResult.success
             THEN [results |-> pushed, failedAtStep |-> i]
             ELSE executeFrom(steps, raws, i + 1, pushed)

\* executeCommands, where raws[k] is what exec yields for the k-th step
\* should that step be started
executeCommands(steps, raws) == executeFrom(steps, raws, 0, <<>>)

\* the outcomes the environment can produce for a list of steps
ExecOutcomesFor(steps) == [1..Len(steps) -> ExecOutcomes]

\* the commands an ExecutionResult shows to have been started
CommandsRun(result) == [k \in DOMAIN result.results |-> result.results[k].step]

\* ------------------------------------------------------------------------
\* Inputs: what the configuration, the reasoner and the human can supply
\* ------------------------------------------------------------------------

N_cache == <<"c", "a", "c", "h", "e">>
N_api == <<"a", "p", "i">>

\* 'docker start cache'
CmdStartCache ==
    <<"d", "o", "c", "k", "e", "r", " ", "s", "t", "a", "r", "t", " ",
      "c", "a", "c", "h", "e">>

\* "docker inspect cache --format '{{.State.Running}}'"
CmdInspectCache ==
    <<"d", "o", "c", "k", "e", "r", " ", "i", "n", "s", "p", "e", "c", "t",
      " ", "c", "a", "c", "h", "e", " ", "-", "-", "f", "o", "r", "m", "a",
      "t", " ", "'", "{", "{", ".", "S", "t", "a", "t", "e", ".", "R", "u",
      "n", "n", "i", "n", "g", "}", "}", "'">>

\* 'docker restart api'
CmdRestartApi ==
    <<"d", "o", "c", "k", "e", "r", " ", "r", "e", "s", "t", "a", "r", "t",
      " ", "a", "p", "i">>

\* 'docker exec api sh -c "echo test"'
CmdShell ==
    <<"d", "o", "c", "k", "e", "r", " ", "e", "x", "e", "c", " ", "a", "p",
      "i", " ", "s", "h", " ", "-", "c", " ", "\"", "e", "c", "h", "o", " ",
      "t", "e", "s", "t", "\"">>

\* 'docker network connect cache api'
CmdConnect ==
    <<"d", "o", "c", "k", "e", "r", " ", "n", "e", "t", "w", "o", "r", "k",
      " ", "c", "o", "n", "n", "e", "c", "t", " ", "c", "a", "c", "h", "e",
      " ", "a", "p", "i">>

\* 'docker ps'
CmdPs == <<"d", "o", "c", "k", "e", "r", " ", "p", "s">>

\* the container sets a compose file of the explored runs declares
ContainerSets == {{N_cache, N_api}, {N_cache}}

Step(action) == [action |-> action]

Plan(steps, verification) == [steps |-> steps, verification |-> verification]

\* the RemediationPlans the planner returns in the explored runs
PlannerOutputs ==
    { Plan(<<Step(CmdStartCache), Step(CmdRestartApi)>>,
           <<Step(CmdInspectCache)>>),
      Plan(<<Step(CmdRestartApi)>>, <<>>),
      Plan(<<>>, <<Step(CmdInspectCache)>>),
      Plan(<<Step(CmdShell)>>, <<Step(CmdInspectCache)>>),
      Plan(<<Step(CmdStartCache)>>, <<Step(CmdConnect)>>),
      Plan(<<Step(CmdPs)>>, <<Step(CmdPs)>>) }

Index(i) == [index |-> i]

Graph(nodes, edges, root) == [nodes |-> nodes, edges |-> edges, root |-> root]

Edge(from, to) == [from |-> from, to |-> to]

\* the IncidentGraphAnalysis values the analyzer returns in the explored
\* runs; root is Null or Index(i)
AnalysisOutputs ==
    { Graph(<<>>, <<>>, Null),
      Graph(<<"cache">>, <<>>, Null),
      Graph(<<>>, <<>>, Index(0)),
      Graph(<<"cache">>, <<>>, Index(0)),
      Graph(<<"cache">>, <<Edge(0, 0)>>, Index(3)) }

FeasibilityOutputs == {[feasible |-> TRUE], [feasible |-> FALSE]}

\* what the human types as escalation context and as rejection feedback
UserTexts == {"cache is external"}

\* a call of runAgent: it throws, or returns result
AgentOutcomes(results) ==
    {[threw |-> TRUE]} \cup {[threw |-> FALSE, result |-> r] : r \in results}

\* ------------------------------------------------------------------------
\* Inputs of the validator on its own
\* ------------------------------------------------------------------------

\* A command of the explored calls is head \o target \o tail. Each part
\* records what it was written to contain: docker, whether the head opens
\* with 'docker '; names, the container names the target mentions as whole
\* words; contains, the blocked construct the tail holds ("" for none).

CommandHeads ==
    { [text |-> <<"d", "o", "c", "k", "e", "r", " ", "e", "x", "e", "c">>,
        docker |-> TRUE],
      [text |-> <<"e", "x", "e", "c">>,
        docker |-> FALSE],
      [text |-> <<"d", "o", "c", "k", "e", "r", "d", " ", "e", "x", "e", "c">>,
        docker |-> FALSE],
      [text |-> <<"s", "u", "d", "o", " ", "d", "o", "c", "k", "e", "r", " ", "e", "x", "e", "c">>,
        docker |-> FALSE],
      [text |-> <<>>,
        docker |-> FALSE] }

CommandTargets ==
    { [text |-> <<" ", "c", "a", "c", "h", "e">>,
        names |-> {N_cache}],
      [text |-> <<" ", "a", "p", "i">>,
        names |-> {N_api}],
      [text |-> <<" ", "c", "a", "c", "h", "e", " ", "a", "p", "i">>,
        names |-> {N_cache, N_api}],
      [text |-> <<" ", "c", "a", "c", "h", "e", "t">>,
        names |-> {}],
      [text |-> <<>>,
        names |-> {}],
      [text |-> <<" ", "c", "a", "c", "h", "e", " ", "c", "a", "c", "h", "e">>,
        names |-> {N_cache}] }

CommandTails ==
    { \* ''
      [text |->
          <<>>,
       contains |-> ""],
      \* ' ls'
      [text |->
          <<" ", "l", "s">>,
       contains |-> ""],
      \* ' sh -c "echo test"'
      [text |->
          <<" ", "s", "h", " ", "-", "c", " ", "\"", "e", "c", "h", "o",
            " ", "t", "e", "s", "t", "\"">>,
       contains |-> "sh -c"],
      \* ' bash -c ls'
      [text |->
          <<" ", "b", "a", "s", "h", " ", "-", "c", " ", "l", "s">>,
       contains |-> "bash -c"],
      \* ' sh -ce ls'
      [text |->
          <<" ", "s", "h", " ", "-", "c", "e", " ", "l", "s">>,
       contains |-> "sh -c"],
      \* ' zsh -c ls'
      [text |->
          <<" ", "z", "s", "h", " ", "-", "c", " ", "l", "s">>,
       contains |-> "sh -c"],
      \* ' ls | wc'
      [text |->
          <<" ", "l", "s", " ", "|", " ", "w", "c">>,
       contains |-> "|"],
      \* ' ls > f'
      [text |->
          <<" ", "l", "s", " ", ">", " ", "f">>,
       contains |-> ">"],
      \* ' wc < f'
      [text |->
          <<" ", "w", "c", " ", "<", " ", "f">>,
       contains |-> "<"],
      \* ' ls && ls'
      [text |->
          <<" ", "l", "s", " ", "&", "&", " ", "l", "s">>,
       contains |-> "&&"],
      \* ' ls || ls'
      [text |->
          <<" ", "l", "s", " ", "|", "|", " ", "l", "s">>,
       contains |-> "||"],
      \* ' ls ; ls'
      [text |->
          <<" ", "l", "s", " ", ";", " ", "l", "s">>,
       contains |-> ";"],
      \* ' $(ls)'
      [text |->
          <<" ", "$", "(", "l", "s", ")">>,
       contains |-> "$("],
      \* ' (grave)ls(grave)'
      [text |->
          <<" ", BACKTICK, "l", "s", BACKTICK>>,
       contains |-> "backtick"],
      \* ' env A=1'
      [text |->
          <<" ", "e", "n", "v", " ", "A", "=", "1">>,
       contains |-> "assignment"],
      \* ' (ls'
      [text |->
          <<" ", "(", "l", "s">>,
       contains |-> "("],
      \* ' ls)'
      [text |->
          <<" ", "l", "s", ")">>,
       contains |-> ")"],
      \* ' rm -rf /'
      [text |->
          <<" ", "r", "m", " ", "-", "r", "f", " ", "/">>,
       contains |-> "destructive"],
      \* ' rm -rf /*'
      [text |->
          <<" ", "r", "m", " ", "-", "r", "f", " ", "/", "*">>,
       contains |-> "destructive"],
      \* ' dd if=f'
      [text |->
          <<" ", "d", "d", " ", "i", "f", "=", "f">>,
       contains |-> "destructive"],
      \* ' mkfs.ext4 d'
      [text |->
          <<" ", "m", "k", "f", "s", ".", "e", "x", "t", "4", " ", "d">>,
       contains |-> "destructive"],
      \* ' tee > /dev/sda'
      [text |->
          <<" ", "t", "e", "e", " ", ">", " ", "/", "d", "e", "v", "/",
            "s", "d", "a">>,
       contains |-> "destructive"],
      \* ' curl u | sh'
      [text |->
          <<" ", "c", "u", "r", "l", " ", "u", " ", "|", " ", "s", "h">>,
       contains |-> "remote code execution"],
      \* ' wget u | bash'
      [text |->
          <<" ", "w", "g", "e", "t", " ", "u", " ", "|", " ", "b", "a",
            "s", "h">>,
       contains |-> "remote code execution"] }

\* a call of validateCommand that has not returned yet
CommandInputs ==
    {[kind |-> "command", head |-> h, target |-> t, tail |-> l,
      command |-> h.text \o t.text \o l.text,
      knownContainers |-> known, verdict |-> Null] :
        h \in CommandHeads, t \in CommandTargets, l \in CommandTails,
        known \in ContainerSets}

\* the commands of the plans handed to validatePlan on its own: one the
\* validator accepts and two it rejects
PlanCommands == {CmdStartCache, CmdShell, CmdPs}

\* lists of at most two steps over those commands
PlanStepLists ==
    UNION {[1..n -> {Step(c) : c \in PlanCommands}] : n \in 0..2}

ValidatedPlans ==
    {Plan(steps, verification) :
        steps \in PlanStepLists, verification \in PlanStepLists}

\* a call of validatePlan that has not returned yet
PlanInputs ==
    {[kind |-> "plan", plan |-> plan, knownContainers |-> known,
      result |-> Null] :
        plan \in ValidatedPlans, known \in ContainerSets}

\* no call of the validator on its own
NoCheck == [kind |-> "none"]

\* ------------------------------------------------------------------------
\* Incident state (orchestration/state.ts)
\* ------------------------------------------------------------------------

createInitialState(logs) ==
    [logs |-> logs,
     incidentGraph |-> Null,
     feasibility |-> Null,
     plan |-> Null,
     executionResult |-> Null,
     verificationResult |-> Null,
     failureContext |-> Null,
     planValidated |-> FALSE,
     resolution |-> "pending"]

\* a FailureContext; an absent step or output is <<>>
FailureContext(type, step, reason, output) ==
    [type |-> type, step |-> step, reason |-> reason, output |-> output]

\* ------------------------------------------------------------------------
\* Capability results (capabilities/types.ts)
\* ------------------------------------------------------------------------

\* A CapabilityResult. Besides success, state and error the model records
\* what the handler did: ran, the commands it started, and asked, whether it
\* called the reasoner gateway.
success(state, ran, asked) ==
    [success |-> TRUE, state |-> state, error |-> "", idle |-> FALSE,
     ran |-> ran, asked |-> asked]

failure(state, error, ran, asked) ==
    [success |-> FALSE, state |-> state, error |-> error, idle |-> FALSE,
     ran |-> ran, asked |-> asked]

\* nodes[root] of the source: defined iff root is an index in range
RootNodeDefined(graph) ==
    /\ graph.root # Null
    /\ graph.root.index >= 0
    /\ graph.root.index < Len(graph.nodes)

\* ------------------------------------------------------------------------
\* Capability handlers
\* ------------------------------------------------------------------------

\* Each <name>Precondition is the chain of early returns at the head of the
\* handler: the error message of the first one taken, "" when none is.

analyzePrecondition(state) ==
    IF state.logs = <<>> THEN "Cannot analyze: no logs present."
    ELSE IF state.incidentGraph # Null THEN "Incident graph already identified."
    ELSE ""

\* analyzeIncident, for the outcome agent of its runAgent call
analyzeIncident(state, agent) ==
    IF analyzePrecondition(state) # ""
    THEN failure(state, analyzePrecondition(state), <<>>, FALSE)
    ELSE IF agent.threw
    THEN failure(state, "Analysis failed", <<>>, TRUE)
    ELSE IF agent.result.root = Null \/ agent.result.nodes = <<>>
    THEN success(state, <<>>, TRUE)
    ELSE success([state EXCEPT !.incidentGraph = agent.result], <<>>, TRUE)

\* a handler that signals idle whenever no graph is stored, failed or not
analyzeIncidentHandler_idleOnFailure(state, agent) ==
    LET result == analyzeIncident(state, agent)
        idle == \/ result.state.incidentGraph = Null
                \/ result.state.incidentGraph.nodes = <<>>
    IN  [result EXCEPT !.idle = idle]

\* the handler exported by analyzeIncident/capability.ts
analyzeIncidentHandler(state, agent) ==
    LET result == analyzeIncident(state, agent)
        idle == /\ result.success
                /\ \/ result.state.incidentGraph = Null
                   \/ result.state.incidentGraph.nodes = <<>>
    IN  [result EXCEPT !.idle = idle]

assessPrecondition(state) ==
    IF state.incidentGraph = Null \/ state.incidentGraph.nodes = <<>>
    THEN "Cannot assess feasibility: no incident identified."
    ELSE IF state.incidentGraph.root = Null
    THEN "Cannot assess feasibility: no root cause specified in graph."
    ELSE IF ~RootNodeDefined(state.incidentGraph)
    THEN "Cannot assess feasibility: root cause index out of bounds."
    ELSE ""

\* assessFeasibility, for the outcome agent of its runAgent call
assessFeasibility(state, agent) ==
    IF assessPrecondition(state) # ""
    THEN failure(state, assessPrecondition(state), <<>>, FALSE)
    ELSE IF agent.threw
    THEN failure(state, "Feasibility assessment failed", <<>>, TRUE)
    ELSE success([state EXCEPT !.feasibility = agent.result], <<>>, TRUE)

\* planPrecondition without the test of feasibility.feasible
planPrecondition_anyFeasibility(state) ==
    IF state.incidentGraph = Null \/ state.incidentGraph.nodes = <<>>
    THEN "Cannot plan: no incident identified."
    ELSE IF state.feasibility = Null
    THEN "Cannot plan: feasibility not assessed."
    ELSE IF state.plan # Null /\ state.failureContext = Null
    THEN "Plan already exists without failure context."
    ELSE IF state.incidentGraph.root = Null
    THEN "Cannot plan: no root cause specified in graph."
    ELSE IF ~RootNodeDefined(state.incidentGraph)
    THEN "Cannot plan: root cause index out of bounds."
    ELSE ""

planPrecondition(state) ==
    IF state.incidentGraph = Null \/ state.incidentGraph.nodes = <<>>
    THEN "Cannot plan: no incident identified."
    ELSE IF state.feasibility = Null
    THEN "Cannot plan: feasibility not assessed."
    ELSE IF ~state.feasibility.feasible
    THEN "Cannot plan: not feasible."
    ELSE IF state.plan # Null /\ state.failureContext = Null
    THEN "Plan already exists without failure context."
    ELSE IF state.incidentGraph.root = Null
    THEN "Cannot plan: no root cause specified in graph."
    ELSE IF ~RootNodeDefined(state.incidentGraph)
    THEN "Cannot plan: root cause index out of bounds."
    ELSE ""

\* planned that keeps the failureContext of the previous plan
planned_keepsFailure(state, plan) ==
    [state EXCEPT !.plan = plan,
                  !.planValidated = FALSE,
                  !.executionResult = Null,
                  !.verificationResult = Null]

\* the state planRemediation returns for the plan the planner produced
planned(state, plan) ==
    [state EXCEPT !.plan = plan,
                  !.planValidated = FALSE,
                  !.executionResult = Null,
                  !.verificationResult = Null,
                  !.failureContext = Null]

\* planRemediation, for the outcome agent of its runAgent call
planRemediation(state, agent) ==
    IF planPrecondition(state) # ""
    THEN failure(state, planPrecondition(state), <<>>, FALSE)
    ELSE IF agent.threw
    THEN failure(state, "Planning failed", <<>>, TRUE)
    ELSE success(planned(state, agent.result), <<>>, TRUE)

\* validatePrecondition without the test of planValidated
validatePrecondition_revalidates(state) ==
    IF state.plan = Null THEN "Cannot validate: no plan exists."
    ELSE ""

validatePrecondition(state) ==
    IF state.plan = Null THEN "Cannot validate: no plan exists."
    ELSE IF state.planValidated THEN "Plan is already validated."
    ELSE ""


\* the command texts of the explored plans
PlannedCommands ==
    UNION {{plan.steps[k].action : k \in DOMAIN plan.steps}
               \cup {plan.verification[k].action :
                         k \in DOMAIN plan.verification} :
           plan \in PlannerOutputs}

\* validateCommand tabulated over those commands: TRUE where it accepts
CommandAccepted ==
    [command \in PlannedCommands, knownContainers \in ContainerSets |->
        validateCommand(command, knownContainers).ok]

\* PlanVerdict that leaves plan.verification unchecked
PlanVerdict_stepsOnly(plan, knownContainers) ==
    assertCommandsValid(plan.steps, knownContainers)

\* PlanVerdict that checks plan.verification before plan.steps
PlanVerdict_verificationFirst(plan, knownContainers) ==
    LET onVerification ==
            assertCommandsValid(plan.verification, knownContainers)
    IN  IF onVerification.ok
        THEN assertCommandsValid(plan.steps, knownContainers)
        ELSE onVerification

\* the verdict of the two assertCommandsValid calls of validatePlan
PlanVerdict(plan, knownContainers) ==
    LET onSteps == assertCommandsValid(plan.steps, knownContainers)
    IN  IF onSteps.ok
        THEN assertCommandsValid(plan.verification, knownContainers)
        ELSE onSteps

\* PlanVerdict tabulated over the plans and container sets of the explored
\* runs and calls, so that each verdict is computed once
PlanVerdicts ==
    [plan \in PlannerOutputs \cup ValidatedPlans,
     knownContainers \in ContainerSets |->
        PlanVerdict(plan, knownContainers)]

validatePlan(state, knownContainers) ==
    IF validatePrecondition(state) # ""
    THEN failure(state, validatePrecondition(state), <<>>, FALSE)
    ELSE LET err == PlanVerdicts[state.plan, knownContainers]
         IN  IF err.ok
             THEN success([state EXCEPT !.planValidated = TRUE], <<>>, FALSE)
             ELSE LET isVerificationCommand ==
                          \E k \in DOMAIN state.plan.verification :
                              state.plan.verification[k].action = err.command
                      updatedState ==
                          [state EXCEPT !.failureContext =
                              FailureContext(
                                  IF isVerificationCommand
                                  THEN "verification_command_rejected"
                                  ELSE "remediation_command_rejected",
                                  err.command, err.reason, <<>>)]
                  IN  failure(updatedState, "Validation failed", <<>>, FALSE)

\* stderr || stdout
OutputOf(stepResult) ==
    IF stepResult.stderr # <<>> THEN stepResult.stderr ELSE stepResult.stdout


\* executePrecondition without the test of planValidated
executePrecondition_unvalidated(state) ==
    IF state.plan = Null THEN "Cannot execute: no plan exists."
    ELSE IF Len(state.plan.steps) = 0
    THEN "Cannot execute: plan has no remediation steps."
    ELSE ""


\* executePrecondition without the test of plan.steps.length
executePrecondition_emptySteps(state) ==
    IF state.plan = Null THEN "Cannot execute: no plan exists."
    ELSE IF ~state.planValidated
    THEN "Cannot execute: plan has not been validated."
    ELSE ""

executePrecondition(state) ==
    IF state.plan = Null THEN "Cannot execute: no plan exists."
    ELSE IF ~state.planValidated
    THEN "Cannot execute: plan has not been validated."
    ELSE IF Len(state.plan.steps) = 0
    THEN "Cannot execute: plan has no remediation steps."
    ELSE ""

\* executePlan past its preconditions: result is what executeCommands
\* returned for plan.steps
executed(state, result) ==
    IF result.failedAtStep = -1
    THEN success([state EXCEPT !.executionResult = result],
                 CommandsRun(result), FALSE)
    ELSE failure(
             [state EXCEPT
                 !.executionResult = result,
                 !.failureContext =
                     FailureContext("execution_failed",
                         state.plan.steps[result.failedAtStep + 1].action,
                         Reason("Command failed at step",
                                result.failedAtStep + 1, {}),
                         OutputOf(result.results[result.failedAtStep + 1]))],
             "Execution failed at step", CommandsRun(result), FALSE)

\* executePlan, where raws is what exec yields for the steps it starts
executePlan(state, raws) ==
    IF executePrecondition(state) # ""
    THEN failure(state, executePrecondition(state), <<>>, FALSE)
    ELSE executed(state, executeCommands(state.plan.steps, raws))

\* verifyPrecondition without the test of executionResult.failedAtStep
verifyPrecondition_afterFailure(state) ==
    IF state.plan = Null THEN "Cannot verify: no plan exists."
    ELSE IF state.executionResult = Null
    THEN "Cannot verify: execution has not been performed."
    ELSE ""

verifyPrecondition(state) ==
    IF state.plan = Null THEN "Cannot verify: no plan exists."
    ELSE IF state.executionResult = Null
    THEN "Cannot verify: execution has not been performed."
    ELSE IF state.executionResult.failedAtStep # -1
    THEN "Cannot verify: execution failed. Replanning required."
    ELSE ""

\* verified that marks the incident resolved whatever the commands returned
verified_alwaysResolved(state, result) ==
    success([state EXCEPT !.verificationResult = result,
                          !.resolution = "resolved"],
            CommandsRun(result), FALSE)

\* verifyPlan past its preconditions, for a plan with verification
\* commands: result is what executeCommands returned for them
verified(state, result) ==
    IF result.failedAtStep = -1
    THEN success([state EXCEPT !.verificationResult = result,
                               !.resolution = "resolved"],
                 CommandsRun(result), FALSE)
    ELSE failure(
             [state EXCEPT
                 !.verificationResult = result,
                 !.failureContext =
                     FailureContext("verification_failed",
                         state.plan.verification[result.failedAtStep + 1].action,
                         Reason("Verification failed at step",
                                result.failedAtStep + 1, {}),
                         OutputOf(result.results[result.failedAtStep + 1]))],
             "Verification failed at step", CommandsRun(result), FALSE)

\* verifyPlan that records the empty verification and leaves resolution
verifyPlan_emptyPending(state, raws) ==
    IF verifyPrecondition(state) # ""
    THEN failure(state, verifyPrecondition(state), <<>>, FALSE)
    ELSE IF Len(state.plan.verification) = 0
    THEN success([state EXCEPT
                     !.verificationResult =
                         [results |-> <<>>, failedAtStep |-> -1]],
                 <<>>, FALSE)
    ELSE verified(state, executeCommands(state.plan.verification, raws))

\* verifyPlan, where raws is what exec yields for the commands it starts
verifyPlan(state, raws) ==
    IF verifyPrecondition(state) # ""
    THEN failure(state, verifyPrecondition(state), <<>>, FALSE)
    ELSE IF Len(state.plan.verification) = 0
    THEN success([state EXCEPT
                     !.verificationResult =
                         [results |-> <<>>, failedAtStep |-> -1],
                     !.resolution = "resolved"],
                 <<>>, FALSE)
    ELSE verified(state, executeCommands(state.plan.verification, raws))

\* the handler of reportFindingsCapability
reportFindings(state) ==
    success([state EXCEPT !.resolution = "observed"], <<>>, FALSE)

\* getCapabilities that declares every tool in both modes
getCapabilities_allTools(m) ==
    {"analyzeIncident", "assessFeasibility", "escalate", "planRemediation",
     "validatePlan", "requestApproval", "executePlan", "verifyPlan",
     "reportFindings"}

\* getCapabilities: the names of the tools declared to the reasoner
getCapabilities(m) ==
    LET baseTools == {"analyzeIncident", "assessFeasibility", "escalate"}
        remediationTools == {"planRemediation", "validatePlan",
                             "requestApproval", "executePlan", "verifyPlan"}
        observeTools == {"reportFindings"}
    IN  IF m = "remediate"
        THEN baseTools \cup remediationTools
        ELSE baseTools \cup observeTools

\* ------------------------------------------------------------------------
\* State updates of the inline capabilities (orchestration/workflow.ts)
\* ------------------------------------------------------------------------

\* the state after the human dismissed (breaker or escalate)
dismissed(state) == [state EXCEPT !.resolution = "dismissed"]

\* escalationContinued that resets feasibility whatever it was
escalationContinued_alwaysReset(state) ==
    [state EXCEPT !.feasibility = Null, !.failureContext = Null]

\* the state after the human answered an escalate call with context
escalationContinued(state) ==
    [state EXCEPT
        !.feasibility =
            IF state.feasibility # Null /\ ~state.feasibility.feasible
            THEN Null
            ELSE state.feasibility,
        !.failureContext = Null]


\* rejected that keeps the executionResult of the rejected plan
rejected_keepsExecution(state, feedback) ==
    [state EXCEPT
        !.failureContext =
            FailureContext("user_rejected", <<>>, Reason(feedback, 0, {}),
                           <<>>),
        !.planValidated = FALSE,
        !.verificationResult = Null]

\* rejected that also drops the plan
rejected_dropsPlan(state, feedback) ==
    [state EXCEPT
        !.failureContext =
            FailureContext("user_rejected", <<>>, Reason(feedback, 0, {}),
                           <<>>),
        !.plan = Null,
        !.planValidated = FALSE,
        !.executionResult = Null,
        !.verificationResult = Null]

\* the state after the human rejected the plan with feedback
rejected(state, feedback) ==
    [state EXCEPT
        !.failureContext =
            FailureContext("user_rejected", <<>>, Reason(feedback, 0, {}),
                           <<>>),
        !.planValidated = FALSE,
        !.executionResult = Null,
        !.verificationResult = Null]

\* ------------------------------------------------------------------------
\* One call of executeCommands (execution/executor.ts)
\* ------------------------------------------------------------------------

\* what exec can hand to the callback of execCmd in the explored calls;
\* for a child killed by a signal error.code is null and error.signal set
AllExecOutcomes ==
    ExecOutcomes
        \cup {[error |-> [signal |-> "SIGKILL"], stdout |-> <<>>,
               stderr |-> <<>>]}

\* the lists of steps handed to executeCommands in the explored calls
StepLists ==
    UNION {[1..n -> {Step(CmdStartCache), Step(CmdRestartApi)}] :
           n \in 0..MaxSteps}

\* a call of executeCommands(steps) for which exec yields raws[k] for the
\* k-th step should it be started; result is Null until the call returned
Call(steps, raws) == [steps |-> steps, raws |-> raws, result |-> Null]

NoRun == Call(<<>>, <<>>)

\* ------------------------------------------------------------------------
\* Log batcher (observation/logBuffer.ts, startMonitoring)
\* ------------------------------------------------------------------------

\* The closure of startMonitoring is a record: buffer, timer (0 for null,
\* else the handle of the timeout last assigned) and isProcessing are its
\* variables; timeouts are the timeouts of the event loop that are armed,
\* inflight the batches whose onBatchReady call has not settled, delivered
\* the ids of the events handed to onBatchReady so far, arrived the number
\* of events pushed so far (an event's id is its rank among them), stopped
\* and exited whether stop was called and the process exited, and last the
\* latest thing that happened.

\* The LogEvents of the explored runs; lifecycle and indicator stand for a
\* message that contains a lifecycle keyword, an error indicator.
LogEvents ==
    [container : {"cache", "api"},
     stream : {"stdout", "stderr"},
     lifecycle : BOOLEAN,
     indicator : BOOLEAN]

isLifecycleEvent(event) == event.lifecycle

hasErrorIndicator(event) == event.indicator

shouldInclude(event) ==
    IF isLifecycleEvent(event) THEN FALSE
    ELSE IF event.stream = "stderr" THEN TRUE
    ELSE hasErrorIndicator(event)

\* the closure right after startMonitoring returned
createMonitor ==
    [buffer |-> <<>>, timer |-> 0, isProcessing |-> FALSE,
     timeouts |-> {}, inflight |-> <<>>, delivered |-> <<>>,
     arrived |-> 0, stopped |-> FALSE, exited |-> FALSE, last |-> "start"]

\* a handle no armed timeout and no variable holds
NewHandle(mon) ==
    CHOOSE h \in 1..(Cardinality(mon.timeouts) + 2) :
        /\ h # mon.timer
        /\ \A t \in mon.timeouts : t.handle # h

\* timer = setTimeout(() => void flush(), delay)
setTimeout(mon, delay) ==
    [mon EXCEPT !.timeouts = @ \cup {[handle |-> NewHandle(mon),
                                      delay |-> delay]},
                !.timer = NewHandle(mon)]

\* clearTimeout(handle)
clearTimeout(mon, handle) ==
    [mon EXCEPT !.timeouts = {t \in @ : t.handle # handle}]

\* the LogBatch built from buffer; a log line stands as the event it
\* renders, trigger records what called flush ("cap" or "timer")
LogBatch(buffer, trigger) ==
    [logs |-> buffer,
     containers |-> {buffer[k].container : k \in DOMAIN buffer},
     trigger |-> trigger]

\* flush that never raises isProcessing
flush_neverBusy(mon, trigger) ==
    IF Len(mon.buffer) = 0 \/ mon.isProcessing
    THEN mon
    ELSE [mon EXCEPT
             !.inflight = Append(@, LogBatch(mon.buffer, trigger)),
             !.delivered = @ \o [k \in DOMAIN mon.buffer |->
                                    mon.buffer[k].id],
             !.buffer = <<>>,
             !.timer = 0]

\* flush that hands over at most MAX_BUFFER_SIZE events and drops the rest
flush_truncating(mon, trigger) ==
    IF Len(mon.buffer) = 0 \/ mon.isProcessing
    THEN mon
    ELSE LET kept == IF Len(mon.buffer) > MAX_BUFFER_SIZE
                     THEN SubSeq(mon.buffer, 1, MAX_BUFFER_SIZE)
                     ELSE mon.buffer
         IN  [mon EXCEPT
                 !.isProcessing = TRUE,
                 !.inflight = Append(@, LogBatch(kept, trigger)),
                 !.delivered = @ \o [k \in DOMAIN kept |-> kept[k].id],
                 !.buffer = <<>>,
                 !.timer = 0]

\* flush up to its await: onBatchReady has been called with the batch
flush(mon, trigger) ==
    IF Len(mon.buffer) = 0 \/ mon.isProcessing
    THEN mon
    ELSE [mon EXCEPT
             !.isProcessing = TRUE,
             !.inflight = Append(@, LogBatch(mon.buffer, trigger)),
             !.delivered = @ \o [k \in DOMAIN mon.buffer |->
                                    mon.buffer[k].id],
             !.buffer = <<>>,
             !.timer = 0]

\* a finally block that only lowers isProcessing
flushFinally_noRearm(mon, k) ==
    [mon EXCEPT
        !.isProcessing = FALSE,
        !.inflight = SubSeq(@, 1, k - 1) \o SubSeq(@, k + 1, Len(@))]

\* a finally block that arms its timeout only for a full buffer
flushFinally_onlyWhenFull(mon, k) ==
    LET settled ==
            [mon EXCEPT
                !.isProcessing = FALSE,
                !.inflight = SubSeq(@, 1, k - 1) \o SubSeq(@, k + 1, Len(@))]
    IN  IF Len(settled.buffer) >= MAX_BUFFER_SIZE /\ settled.timer = 0
        THEN setTimeout(settled, 0)
        ELSE settled

\* the finally block of flush, once the k-th call in flight has settled
flushFinally(mon, k) ==
    LET settled ==
            [mon EXCEPT
                !.isProcessing = FALSE,
                !.inflight = SubSeq(@, 1, k - 1) \o SubSeq(@, k + 1, Len(@))]
    IN  IF Len(settled.buffer) > 0 /\ settled.timer = 0
        THEN setTimeout(settled,
                 IF Len(settled.buffer) >= MAX_BUFFER_SIZE
                 THEN 0 ELSE windowMs)
        ELSE settled

handleLogEvent(mon, event) ==
    IF ~shouldInclude(event)
    THEN mon
    ELSE LET pushed ==
                 [mon EXCEPT
                     !.buffer = Append(@, [id |-> mon.arrived + 1,
                                           container |-> event.container]),
                     !.arrived = @ + 1]
         IN  IF Len(pushed.buffer) >= MAX_BUFFER_SIZE /\ ~pushed.isProcessing
             THEN flush(IF pushed.timer # 0
                        THEN [clearTimeout(pushed, pushed.timer)
                                 EXCEPT !.timer = 0]
                        ELSE pushed,
                        "cap")
             ELSE IF ~pushed.isProcessing
             THEN setTimeout(IF pushed.timer # 0
                             THEN clearTimeout(pushed, pushed.timer)
                             ELSE pushed,
                             windowMs)
             ELSE pushed

\* the callback of an armed timeout t runs: () => void flush()
timeoutFired(mon, t) ==
    flush([mon EXCEPT !.timeouts = @ \ {t}], "timer")

\* stop that flushes what is left
stop_flushing(mon) ==
    flush(IF mon.timer # 0
          THEN [clearTimeout(mon, mon.timer) EXCEPT !.timer = 0]
          ELSE mon,
          "timer")

\* the function startMonitoring returns
stop(mon) ==
    IF mon.timer # 0
    THEN [clearTimeout(mon, mon.timer) EXCEPT !.timer = 0]
    ELSE mon

\* ------------------------------------------------------------------------
\* withRetry (utils/helpers.ts)
\* ------------------------------------------------------------------------

maxRetries == 3

baseDelayMs == 1000

\* what one invocation of fn does: it resolves, or it rejects with an error
\* whose status is a number or is missing (0 here: the test of status
\* treats a missing status and 0 alike); id tells the invocations apart
Outcomes(id) ==
    {[ok |-> TRUE, status |-> 0, id |-> id]}
        \cup {[ok |-> FALSE, status |-> status, id |-> id] :
                 status \in {0, 399, 400, 404, 429, 499, 500, 503}}

\* the call of withRetry before its first attempt
createRetry ==
    [pc |-> "calling", attempt |-> 0, calls |-> <<>>, slept |-> <<>>,
     delay |-> 0, settled |-> Null]

\* the test of status that lets an error with the status 400 be retried
isClientError_above400(status) ==
    status # 0 /\ status > 400 /\ status < 500

\* status && status >= 400 && status < 500
isClientError(status) ==
    status # 0 /\ status >= 400 /\ status < 500

\* one iteration of the for loop up to the await of the delay: fn is
\* invoked and its outcome is returned, rethrown, thrown as lastError after
\* the break, or followed by a delay
afterAttempt(r, outcome) ==
    LET called == [r EXCEPT !.calls = Append(@, outcome)]
    IN  IF outcome.ok
        THEN [called EXCEPT !.pc = "returned", !.settled = outcome]
        ELSE IF isClientError(outcome.status)
        THEN [called EXCEPT !.pc = "threw", !.settled = outcome]
        ELSE IF r.attempt = maxRetries - 1
        THEN [called EXCEPT !.pc = "threw", !.settled = outcome]
        ELSE [called EXCEPT !.pc = "sleeping",
                            !.delay = baseDelayMs * (2 ^ r.attempt)]

\* ------------------------------------------------------------------------
\* runAgent (the reasoner gateway) with the tools of assessFeasibility
\* ------------------------------------------------------------------------

\* A text is a sequence of tokens: the fences of a code block, a JSON
\* object, the JSON literal null, and prose. is tells what the text was
\* built as: a JSON object (fenced or not), a JSON value that is falsy,
\* something that is no JSON, or no text at all.
Text(tokens, is) == [tokens |-> tokens, is |-> is]

ModelTexts ==
    {Text(<<"object">>, "object"),
     Text(<<"fence_json", "object", "fence">>, "object"),
     Text(<<"null">>, "falsy"),
     Text(<<"prose", "object">>, "invalid"),
     Text(<<>>, "absent")}

\* the tools assessFeasibility passes to runAgent
ToolNames == {"inspect_container", "ask_user"}

\* the names a function call of the model can carry: a tool, a name that
\* is no tool, no name
CallNames == ToolNames \cup {"restart_everything", ""}

Response(kind, calls, text) ==
    [kind |-> kind, calls |-> calls, tokens |-> text.tokens, is |-> text.is]

\* what withRetry(generateContent) gives: it throws, the response has no
\* content parts, it has function calls, or it has none and maybe a text
ModelResponses ==
    {Response("failed", <<>>, Text(<<>>, "absent")),
     Response("empty", <<>>, Text(<<>>, "absent"))}
        \cup {Response("content", <<name>>, Text(<<>>, "absent")) :
                 name \in CallNames}
        \cup {Response("content", <<first, second>>,
                        Text(<<>>, "absent")) :
                 first \in CallNames, second \in CallNames}
        \cup {Response("content", <<>>, text) : text \in ModelTexts}

\* what the request of the cleanup phase gives
CleanupResponses ==
    {Response("failed", <<>>, Text(<<>>, "absent")),
     Response("empty", <<>>, Text(<<>>, "absent"))}
        \cup {Response("content", <<>>, text) : text \in ModelTexts}

\* JSON.parse: a value for a text that is one JSON value, a SyntaxError
\* otherwise
JSON_parse(tokens) ==
    IF Len(tokens) = 1 /\ tokens[1] \in {"object", "null"}
    THEN [ok |-> TRUE, value |-> tokens[1]]
    ELSE [ok |-> FALSE, value |-> "SyntaxError"]

\* text.replace(/fence json|fence/g, "").trim()
stripFences(tokens) ==
    LET kept(i) == tokens[i] \notin {"fence_json", "fence"}
        F[i \in 0..Len(tokens)] ==
            IF i = 0 THEN <<>>
            ELSE IF kept(i) THEN Append(F[i - 1], tokens[i]) ELSE F[i - 1]
    IN  F[Len(tokens)]

\* tryParseJson: the parsed value, null when JSON.parse throws
tryParseJson(tokens) ==
    LET parsed == JSON_parse(stripFences(tokens))
    IN  IF parsed.ok THEN parsed.value ELSE "null"

\* the truthiness of a value: an object is truthy, null is not
truthy(value) == value # "null"

\* the call of runAgent before its first request
createAgent ==
    [pc |-> "request", requests |-> 0, repairs |-> 0, response |-> Null,
     pending |-> {}, prompts |-> 0, last |-> "none", result |-> "",
     error |-> ""]

\* Promise.all over the function calls: the callback of each call runs up
\* to its first await before the next one starts, so a call without name
\* or of an unknown tool has rejected, and the handler of every other call
\* has been started (ask_user has put its question on the terminal), when
\* runAgent awaits the results; one rejection rejects the whole
runTools(a, calls) ==
    LET started == {k \in DOMAIN calls : calls[k] \in ToolNames}
        refused == DOMAIN calls \ started
        first == CHOOSE k \in refused : \A j \in refused : k <= j
    IN  [a EXCEPT
            !.pending = started,
            !.prompts = Cardinality({k \in started : calls[k] = "ask_user"}),
            !.pc = IF refused = {} THEN "tools" ELSE "threw",
            !.error = IF refused = {} THEN ""
                      ELSE IF calls[first] = ""
                      THEN "Function call missing name"
                      ELSE "Unknown tool"]

\* one iteration of the while loop from the request to the tool calls, the
\* return of the parsed text or the start of the cleanup phase
afterResponse(a, response) ==
    LET asked == [a EXCEPT !.requests = @ + 1, !.response = response,
                           !.last = "response"]
    IN  IF response.kind = "failed"
        THEN [asked EXCEPT !.pc = "threw", !.error = "request failed"]
        ELSE IF response.kind = "empty"
        THEN [asked EXCEPT !.pc = "threw", !.error = "Empty model response"]
        ELSE IF response.calls # <<>>
        THEN runTools(asked, response.calls)
        ELSE IF /\ response.tokens # <<>>
                /\ truthy(tryParseJson(response.tokens))
        THEN [asked EXCEPT !.pc = "returned",
                           !.result = tryParseJson(response.tokens)]
        ELSE [asked EXCEPT !.pc = "cleanup"]

\* the handler of call k settles; when the last one has returned the loop
\* continues with the tool results, and one that throws makes runAgent
\* throw while the others are still running
toolSettled(a, k, how) ==
    LET left == [a EXCEPT
                    !.pending = @ \ {k},
                    !.prompts = IF a.response.calls[k] = "ask_user"
                                THEN @ - 1 ELSE @,
                    !.last = how]
    IN  IF a.pc # "tools" THEN left
        ELSE IF how = "threw"
        THEN [left EXCEPT !.pc = "threw", !.error = "tool failed"]
        ELSE IF left.pending = {} THEN [left EXCEPT !.pc = "request"]
        ELSE left

\* a cleanup phase that asks again when the answer is no JSON
cleanup_repairsAgain(a, response) ==
    LET asked == [a EXCEPT !.repairs = @ + 1, !.response = response,
                           !.last = "cleanup"]
    IN  IF response.kind = "failed"
        THEN [asked EXCEPT !.pc = "threw", !.error = "request failed"]
        ELSE IF response.kind = "empty" \/ response.tokens = <<>>
        THEN [asked EXCEPT !.pc = "threw", !.error = "Cleanup phase failed"]
        ELSE IF JSON_parse(response.tokens).ok
        THEN [asked EXCEPT !.pc = "returned",
                           !.result = JSON_parse(response.tokens).value]
        ELSE asked

\* the cleanup phase: the corrective message, the request with the
\* response schema, and the return of JSON.parse of its text
cleanup(a, response) ==
    LET asked == [a EXCEPT !.repairs = @ + 1, !.response = response,
                           !.last = "cleanup"]
    IN  IF response.kind = "failed"
        THEN [asked EXCEPT !.pc = "threw", !.error = "request failed"]
        ELSE IF response.kind = "empty" \/ response.tokens = <<>>
        THEN [asked EXCEPT !.pc = "threw", !.error = "Cleanup phase failed"]
        ELSE IF JSON_parse(response.tokens).ok
        THEN [asked EXCEPT !.pc = "returned",
                           !.result = JSON_parse(response.tokens).value]
        ELSE [asked EXCEPT !.pc = "threw", !.error = "SyntaxError"]

\* ------------------------------------------------------------------------
\* Orchestrator (orchestration/workflow.ts, runOrchestrator)
\* ------------------------------------------------------------------------

VARIABLES
    mode,          \* policy.mode
    maxAttempts,   \* context.maxAttempts = policy.constraints.maxActionsPerIncident
    containers,    \* infrastructure.containers
    state,         \* the IncidentResolutionState held by the loop
    attemptCount,  \* context.attemptCount
    facts,         \* the facts appended to the knowledge file, in order
    pc,            \* "loop" at the head of the while loop, "done" once returned
    idle,          \* the idle flag of the OrchestratorResult returned
    obs,           \* what the last iteration did (observation only)
    validated,     \* a validatePlan succeeded since the plan was produced
    approved,      \* the human approved since that validation
    replans,       \* replans dispatched since the last context at the breaker
    run,           \* one call of executeCommands: its argument and its result
    monitor,       \* the closure of startMonitoring and what it has delivered
    check,         \* one call of the validator: its argument and its verdict
    retry,         \* one call of withRetry: its attempts, delays and outcome
    runner         \* one call of runAgent: its requests, tools and outcome

vars == <<mode, maxAttempts, containers, state, attemptCount, facts,
          pc, idle, obs, validated, approved, replans, run, monitor,
          check, retry, runner>>

config == <<mode, maxAttempts, containers>>

\* the components the orchestrator loop does not touch
apart == <<run, monitor, check, retry, runner>>

\* The record of an iteration: the capability dispatched ("circuitBreaker",
\* "error" and "none" for the iterations that dispatch none), whether it
\* succeeded, the commands it started, whether it called the reasoner
\* gateway, the prompt shown to the human and the text the human typed;
\* error is the error the iteration logged ("" for none) and nudge what it
\* appended to the reasoner history ("none" for nothing); audited tells
\* whether the iteration pushed an entry on context.history, which the
\* escalate, requestApproval and capability branches do and the circuit
\* breaker, the missing function call and the catch block do not.
Observation(cap, ok, ran, asked, prompt, typed) ==
    [cap |-> cap, success |-> ok, ran |-> ran, asked |-> asked,
     prompt |-> prompt, typed |-> typed, error |-> "", nudge |-> "none",
     audited |-> cap \notin {"none", "error", "circuitBreaker"}]

\* addFact
addFact(store, question, answer) ==
    Append(store, [question |-> question, answer |-> answer])

Init ==
    /\ mode \in {"remediate", "observe"}
    /\ maxAttempts \in 1..MaxAttemptsBound
    /\ containers \in ContainerSets
    /\ \E logs \in {<<"[cache] Container stopped unexpectedly">>} :
          state = createInitialState(logs)
    /\ attemptCount = 0
    /\ facts = <<>>
    /\ pc = "loop"
    /\ idle = FALSE
    /\ obs = Observation("none", TRUE, <<>>, FALSE, "none", "")
    /\ validated = FALSE
    /\ approved = FALSE
    /\ replans = 0
    /\ run = NoRun
    /\ monitor = createMonitor
    /\ check = NoCheck
    /\ retry = createRetry
    /\ runner = createAgent

\* CircuitOpen that lets one more iteration through
CircuitOpen_late == attemptCount > maxAttempts

\* the test of the circuit breaker at the head of an iteration
CircuitOpen == attemptCount >= maxAttempts

\* the while condition: the loop is left once resolution is not pending
AfterIteration(newState) ==
    IF newState.resolution = "pending" THEN "loop" ELSE "done"

\* TrackAttempts that counts every planRemediation call
TrackAttempts_everyPlan(capabilityName, hadFailureContext, count) ==
    IF capabilityName = "planRemediation"
    THEN count + 1
    ELSE count

\* the attempt tracking at the end of the generic path
TrackAttempts(capabilityName, hadFailureContext, count) ==
    IF capabilityName = "planRemediation" /\ hadFailureContext
    THEN count + 1
    ELSE count

\* an iteration that reaches the reasoner: breaker closed
Selecting == pc = "loop" /\ ~CircuitOpen

\* Circuit breaker: the human dismisses or provides context.
CircuitBreaker ==
    /\ pc = "loop"
    /\ CircuitOpen
    /\ \/ /\ state' = dismissed(state)
          /\ pc' = "done"
          /\ obs' = Observation("circuitBreaker", TRUE, <<>>, FALSE,
                                "escalation", "")
          /\ UNCHANGED <<attemptCount, facts, replans>>
       \/ /\ Len(facts) < MaxFacts
          /\ \E context \in UserTexts :
                /\ facts' = addFact(facts,
                                "User context after max attempts reached",
                                context)
                /\ obs' = Observation("circuitBreaker", TRUE, <<>>, FALSE,
                                      "escalation", context)
          /\ attemptCount' = 0
          /\ replans' = 0
          /\ UNCHANGED <<state, pc>>
    /\ UNCHANGED <<config, apart, idle, validated, approved>>

\* The reasoner call fails after its retries, the response is empty, the
\* capability is unknown or the handler throws: the catch block.
OrchestrationError ==
    /\ Selecting
    /\ obs' = [Observation("error", FALSE, <<>>, FALSE, "none", "") EXCEPT
                  !.error = "Unexpected orchestration error",
                  !.nudge = "Error occurred"]
    /\ UNCHANGED <<config, apart, state, attemptCount, facts, pc, idle,
                   validated, approved, replans>>

\* The response carries no function call: the reasoner is nudged.
NoFunctionCall ==
    /\ Selecting
    /\ obs' = [Observation("none", TRUE, <<>>, FALSE, "none", "") EXCEPT
                  !.nudge = "You must select a capability to invoke"]
    /\ UNCHANGED <<config, apart, state, attemptCount, facts, pc, idle,
                   validated, approved, replans>>

\* escalate, handled inline
Escalate ==
    /\ Selecting
    /\ "escalate" \in getCapabilities(mode)
    /\ \/ /\ state' = dismissed(state)
          /\ pc' = "done"
          /\ obs' = Observation("escalate", TRUE, <<>>, FALSE,
                                "escalation", "")
          /\ UNCHANGED facts
       \/ /\ Len(facts) < MaxFacts
          /\ \E reason \in {"cannot proceed"}, context \in UserTexts :
                /\ facts' = addFact(facts, reason, context)
                /\ obs' = Observation("escalate", TRUE, <<>>, FALSE,
                                      "escalation", context)
          /\ state' = escalationContinued(state)
          /\ pc' = "loop"
    /\ UNCHANGED <<config, apart, attemptCount, idle, validated, approved, replans>>

\* requestApproval, handled inline
RequestApproval ==
    /\ Selecting
    /\ "requestApproval" \in getCapabilities(mode)
    /\ \/ /\ obs' = Observation("requestApproval", TRUE, <<>>, FALSE,
                                "approval", "y")
          /\ approved' = TRUE
          /\ UNCHANGED state
       \/ \E feedback \in UserTexts :
             /\ state' = rejected(state, feedback)
             /\ obs' = Observation("requestApproval", FALSE, <<>>, FALSE,
                                   "approval", feedback)
             /\ UNCHANGED approved
    /\ UNCHANGED <<config, apart, attemptCount, facts, pc, idle, validated, replans>>

\* The generic path: the handler returned result for capabilityName.
Generic(capabilityName, result) ==
    /\ Selecting
    /\ capabilityName \in getCapabilities(mode)
    /\ state' = result.state
    /\ obs' = [Observation(capabilityName, result.success, result.ran,
                           result.asked, "none", "") EXCEPT
                  !.error = result.error,
                  !.nudge = "functionResponse"]
    /\ IF result.idle
       THEN /\ pc' = "done"
            /\ idle' = TRUE
            /\ UNCHANGED <<attemptCount, replans>>
       ELSE /\ pc' = AfterIteration(result.state)
            /\ attemptCount' = TrackAttempts(capabilityName,
                                   state.failureContext # Null, attemptCount)
            /\ replans' = IF capabilityName = "planRemediation"
                             /\ state.failureContext # Null
                          THEN replans + 1
                          ELSE replans
            /\ UNCHANGED idle
    /\ validated' =
          IF capabilityName = "validatePlan" /\ result.success THEN TRUE
          ELSE IF capabilityName = "planRemediation" /\ result.success
               THEN FALSE
               ELSE validated
    /\ approved' =
          IF capabilityName \in {"validatePlan", "planRemediation"}
             /\ result.success
          THEN FALSE
          ELSE approved
    /\ UNCHANGED <<config, apart>>

AnalyzeIncident ==
    /\ \E agent \in AgentOutcomes(AnalysisOutputs) :
          Generic("analyzeIncident", analyzeIncidentHandler(state, agent))
    /\ UNCHANGED facts

\* During the assessment the ask_user tool may persist an answer.
AssessFeasibility ==
    \E agent \in AgentOutcomes(FeasibilityOutputs) :
        LET result == assessFeasibility(state, agent)
        IN  /\ Generic("assessFeasibility", result)
            /\ \/ UNCHANGED facts
               \/ /\ result.asked
                  /\ Len(facts) < MaxFacts
                  /\ \E answer \in UserTexts :
                        facts' = addFact(facts, "feasibility question", answer)

PlanRemediation ==
    /\ \E agent \in AgentOutcomes(PlannerOutputs) :
          Generic("planRemediation", planRemediation(state, agent))
    /\ UNCHANGED facts

ValidatePlan ==
    /\ Generic("validatePlan", validatePlan(state, containers))
    /\ UNCHANGED facts

ExecutePlan ==
    /\ \E raws \in ExecOutcomesFor(IF state.plan = Null THEN <<>>
                                   ELSE state.plan.steps) :
          Generic("executePlan", executePlan(state, raws))
    /\ UNCHANGED facts

VerifyPlan ==
    /\ \E raws \in ExecOutcomesFor(IF state.plan = Null THEN <<>>
                                   ELSE state.plan.verification) :
          Generic("verifyPlan", verifyPlan(state, raws))
    /\ UNCHANGED facts

ReportFindings ==
    /\ Generic("reportFindings", reportFindings(state))
    /\ UNCHANGED facts

Next ==
    \/ CircuitBreaker
    \/ OrchestrationError
    \/ NoFunctionCall
    \/ Escalate
    \/ RequestApproval
    \/ AnalyzeIncident
    \/ AssessFeasibility
    \/ PlanRemediation
    \/ ValidatePlan
    \/ ExecutePlan
    \/ VerifyPlan
    \/ ReportFindings

Spec == Init /\ [][Next]_vars

\* ------------------------------------------------------------------------
\* executeCommands on its own: every list of steps, every outcome of exec
\* ------------------------------------------------------------------------

\* the orchestrator before any batch arrived, for the two components that
\* are explored on their own
OrchestratorAtRest ==
    /\ mode = "observe"
    /\ maxAttempts = 1
    /\ containers = {N_cache, N_api}
    /\ state = createInitialState(<<>>)
    /\ attemptCount = 0
    /\ facts = <<>>
    /\ pc = "done"
    /\ idle = FALSE
    /\ obs = Observation("none", TRUE, <<>>, FALSE, "none", "")
    /\ validated = FALSE
    /\ approved = FALSE
    /\ replans = 0

orchestrator == <<mode, maxAttempts, containers, state, attemptCount, facts,
                  pc, idle, obs, validated, approved, replans>>

InitExec ==
    /\ OrchestratorAtRest
    /\ retry = createRetry
    /\ runner = createAgent
    /\ monitor = createMonitor
    /\ check = NoCheck
    /\ \E steps \in StepLists :
          \E raws \in [1..Len(steps) -> AllExecOutcomes] :
              run = Call(steps, raws)

\* the call returns
ExecuteCommands ==
    /\ run.result = Null
    /\ run' = [run EXCEPT !.result = executeCommands(run.steps, run.raws)]
    /\ UNCHANGED <<orchestrator, retry, runner, monitor, check>>

NextExec == ExecuteCommands

SpecExec == InitExec /\ [][NextExec]_vars

\* ------------------------------------------------------------------------
\* The log batcher on its own: events, timeouts, callbacks, stop, signals
\* ------------------------------------------------------------------------

\* everything at rest: the state every component explored on its own
\* starts from, unless it draws its argument
InitMonitor ==
    /\ OrchestratorAtRest
    /\ retry = createRetry
    /\ runner = createAgent
    /\ run = NoRun
    /\ monitor = createMonitor
    /\ check = NoCheck

\* a log line of some container reaches handleLogEvent
HandleLogEvent ==
    /\ ~monitor.exited
    /\ \E event \in LogEvents :
          /\ shouldInclude(event) => monitor.arrived < MaxEvents
          /\ monitor' = [handleLogEvent(monitor, event) EXCEPT
                            !.last = IF shouldInclude(event)
                                     THEN "event" ELSE "filtered"]
    /\ UNCHANGED <<orchestrator, retry, runner, run, check>>

\* an armed timeout expires
TimeoutFires ==
    /\ ~monitor.exited
    /\ \E t \in monitor.timeouts :
          monitor' = [timeoutFired(monitor, t) EXCEPT !.last = "timer"]
    /\ UNCHANGED <<orchestrator, retry, runner, run, check>>

\* a call of onBatchReady settles: it returned or it threw
CallbackSettles ==
    /\ ~monitor.exited
    /\ \E k \in DOMAIN monitor.inflight, how \in {"returned", "threw"} :
          monitor' = [flushFinally(monitor, k) EXCEPT !.last = how]
    /\ UNCHANGED <<orchestrator, retry, runner, run, check>>

\* the function startMonitoring returned is called
Stop ==
    /\ ~monitor.exited
    /\ monitor' = [stop(monitor) EXCEPT !.stopped = TRUE, !.last = "stop"]
    /\ UNCHANGED <<orchestrator, retry, runner, run, check>>

\* SIGINT or SIGTERM: the shutdown handler of main calls process.exit(0)
Shutdown ==
    /\ ~monitor.exited
    /\ monitor' = [monitor EXCEPT !.exited = TRUE, !.last = "exit"]
    /\ UNCHANGED <<orchestrator, retry, runner, run, check>>

NextMonitor ==
    \/ HandleLogEvent
    \/ TimeoutFires
    \/ CallbackSettles
    \/ Stop
    \/ Shutdown

SpecMonitor == InitMonitor /\ [][NextMonitor]_vars

\* timeouts expire and callbacks settle
SpecMonitorFair ==
    /\ SpecMonitor
    /\ WF_vars(TimeoutFires)
    /\ WF_vars(CallbackSettles)

\* ------------------------------------------------------------------------
\* The validator on its own: one call of validateCommand or of validatePlan
\* ------------------------------------------------------------------------

InitValidate ==
    /\ OrchestratorAtRest
    /\ retry = createRetry
    /\ runner = createAgent
    /\ run = NoRun
    /\ monitor = createMonitor
    /\ check \in CommandInputs \cup PlanInputs

\* validateCommand returns or throws
ValidateCommand ==
    /\ check.kind = "command"
    /\ check.verdict = Null
    /\ check' = [check EXCEPT
                    !.verdict = validateCommand(check.command,
                                                check.knownContainers)]
    /\ UNCHANGED <<orchestrator, retry, runner, run, monitor>>

\* validatePlan returns for a state that holds the plan, not yet validated
ValidateOnePlan ==
    /\ check.kind = "plan"
    /\ check.result = Null
    /\ check' = [check EXCEPT
                    !.result =
                        validatePlan(
                            [createInitialState(<<>>) EXCEPT
                                !.plan = check.plan],
                            check.knownContainers)]
    /\ UNCHANGED <<orchestrator, retry, runner, run, monitor>>

NextValidate ==
    \/ ValidateCommand
    \/ ValidateOnePlan

SpecValidate == InitValidate /\ [][NextValidate]_vars

\* ------------------------------------------------------------------------
\* withRetry on its own: every outcome of every invocation
\* ------------------------------------------------------------------------

\* fn is invoked and settles
RetryAttempt ==
    /\ retry.pc = "calling"
    /\ retry.attempt < maxRetries
    /\ \E outcome \in Outcomes(Len(retry.calls) + 1) :
          retry' = afterAttempt(retry, outcome)
    /\ UNCHANGED <<orchestrator, run, monitor, check, runner>>

\* the timeout of the delay expires and the loop goes to its next
\* iteration
RetrySleep ==
    /\ retry.pc = "sleeping"
    /\ retry' = [retry EXCEPT !.pc = "calling",
                               !.slept = Append(@, retry.delay),
                               !.delay = 0,
                               !.attempt = @ + 1]
    /\ UNCHANGED <<orchestrator, run, monitor, check, runner>>

NextRetry ==
    \/ RetryAttempt
    \/ RetrySleep

SpecRetry == InitMonitor /\ [][NextRetry]_vars

\* ------------------------------------------------------------------------
\* runAgent on its own: every response, every outcome of every tool
\* ------------------------------------------------------------------------

\* the request of the loop settles
AgentRequest ==
    /\ runner.pc = "request"
    /\ runner.requests < MaxRequests
    /\ \E response \in ModelResponses :
          runner' = afterResponse(runner, response)
    /\ UNCHANGED <<orchestrator, run, monitor, check, retry>>

\* a tool handler settles: it returned or it threw
AgentToolSettles ==
    /\ \E k \in runner.pending, how \in {"returned", "threw"} :
          runner' = toolSettled(runner, k, how)
    /\ UNCHANGED <<orchestrator, run, monitor, check, retry>>

\* the request of the cleanup phase settles
AgentCleanup ==
    /\ runner.pc = "cleanup"
    /\ \E response \in CleanupResponses :
          runner' = cleanup(runner, response)
    /\ UNCHANGED <<orchestrator, run, monitor, check, retry>>

NextAgent ==
    \/ AgentRequest
    \/ AgentToolSettles
    \/ AgentCleanup

SpecAgent == InitMonitor /\ [][NextAgent]_vars

\* ------------------------------------------------------------------------
\* Properties
\* ------------------------------------------------------------------------

\* C1: executePlan starts commands only in a state with a plan whose
\* planValidated is true, set by a validatePlan that succeeded since the
\* plan was produced, and the commands are the leading steps of that plan;
\* called with no plan or with planValidated false it starts no command,
\* fails and returns the state unchanged.
C1_ExecuteOnlyValidated ==
    [][obs'.cap = "executePlan" =>
          /\ obs'.ran # <<>> =>
                /\ state.plan # Null
                /\ state.planValidated
                /\ validated
                /\ Len(obs'.ran) <= Len(state.plan.steps)
                /\ \A k \in DOMAIN obs'.ran :
                      obs'.ran[k] = state.plan.steps[k].action
          /\ (state.plan = Null \/ ~state.planValidated) =>
                /\ obs'.ran = <<>>
                /\ ~obs'.success
                /\ state' = state]_vars

C1_Witness ==
    /\ obs.cap = "executePlan"
    /\ obs.ran # <<>>
    /\ state.planValidated
    /\ validated

\* C2: whenever executePlan has started commands, the human approved the
\* plan after its latest successful validation.
C2_ExecutionApproved ==
    (obs.cap = "executePlan" /\ obs.ran # <<>>) => approved

\* C3: validatePlan on an unvalidated plan sets planValidated exactly when
\* the validator accepts every command of plan.steps and plan.verification
\* against the known containers; otherwise planValidated stays false.
C3_ValidatedIffAllAccepted ==
    [][(obs'.cap = "validatePlan" /\ state.plan # Null
            /\ ~state.planValidated) =>
          LET allAccepted ==
                  /\ \A k \in DOMAIN state.plan.steps :
                        CommandAccepted[state.plan.steps[k].action,
                                        containers]
                  /\ \A k \in DOMAIN state.plan.verification :
                        CommandAccepted[state.plan.verification[k].action,
                                        containers]
          IN  /\ state'.planValidated <=> allAccepted
              /\ obs'.success <=> allAccepted]_vars

C3_Witness ==
    /\ obs.cap = "validatePlan"
    /\ obs.success
    /\ state.planValidated
    /\ state.plan.steps # <<>>
    /\ state.plan.verification # <<>>

\* C4: planValidated implies a plan is present; an executionResult implies
\* a plan is present and validated.
C4_PlanInvariants ==
    /\ state.planValidated => state.plan # Null
    /\ state.executionResult # Null =>
          (state.plan # Null /\ state.planValidated)

C4_Witness ==
    /\ state.executionResult # Null
    /\ state.planValidated
    /\ state.failureContext # Null

\* C5: a verificationResult is present only with an executionResult whose
\* failedAtStep is -1.
C5_VerificationAfterSuccess ==
    state.verificationResult # Null =>
        /\ state.executionResult # Null
        /\ state.executionResult.failedAtStep = -1

\* C6: whenever resolution is resolved, executionResult and
\* verificationResult are present with failedAtStep = -1, and the iteration
\* that set it was a verifyPlan that succeeded.
C6_ResolvedMeansVerified ==
    state.resolution = "resolved" =>
        /\ state.executionResult # Null
        /\ state.executionResult.failedAtStep = -1
        /\ state.verificationResult # Null
        /\ state.verificationResult.failedAtStep = -1
        /\ obs.cap = "verifyPlan"
        /\ obs.success

C6_Witness ==
    /\ state.resolution = "resolved"
    /\ state.verificationResult.results # <<>>

\* C7: attemptCount stays within 0..maxAttempts and equals the number of
\* planRemediation calls dispatched with a failureContext since the last
\* context given at the circuit breaker; it changes only by such a call,
\* which adds one, or by that context, which resets it to 0.
C7_AttemptCounting ==
    /\ [](attemptCount \in 0..maxAttempts /\ replans = attemptCount)
    /\ [][(attemptCount' # attemptCount =>
               \/ /\ obs'.cap = "planRemediation"
                  /\ state.failureContext # Null
                  /\ attemptCount' = attemptCount + 1
               \/ /\ obs'.cap = "circuitBreaker"
                  /\ attemptCount' = 0)
           /\ ((obs'.cap = "planRemediation" /\ state.failureContext # Null)
                  => attemptCount' = attemptCount + 1)]_vars

C7_Witness ==
    /\ obs.cap = "planRemediation"
    /\ attemptCount = maxAttempts
    /\ maxAttempts > 1

\* C8: an iteration that starts with attemptCount >= maxAttempts consults
\* the human and neither calls the reasoner nor dispatches a capability; on
\* dismissal resolution becomes dismissed and the loop ends, on context
\* attemptCount becomes 0, the context is appended as a fact, the incident
\* state is unchanged and the loop continues.
C8_CircuitBreaker ==
    [][(pc = "loop" /\ attemptCount >= maxAttempts) =>
          /\ obs'.cap = "circuitBreaker"
          /\ obs'.prompt = "escalation"
          /\ ~obs'.asked
          /\ obs'.ran = <<>>
          /\ \/ /\ state' = [state EXCEPT !.resolution = "dismissed"]
                /\ pc' = "done"
                /\ attemptCount' = attemptCount
                /\ facts' = facts
             \/ /\ attemptCount' = 0
                /\ state' = state
                /\ pc' = "loop"
                /\ obs'.typed \in UserTexts
                /\ facts' = Append(facts,
                       [question |-> "User context after max attempts reached",
                        answer |-> obs'.typed])]_vars

C8_Witness ==
    /\ obs.cap = "circuitBreaker"
    /\ pc = "loop"
    /\ attemptCount = 0
    /\ facts # <<>>
    /\ state.failureContext # Null

\* C9: planRemediation calls the planner only when feasibility is present
\* with feasible = true and either no plan exists or failureContext is
\* present; otherwise it fails, calls no planner and returns the state
\* unchanged; the plan is replaced only by a planRemediation that called
\* the planner and succeeded.
C9_PlanOnlyWhenFeasible ==
    [][LET allowed ==
               /\ state.feasibility # Null
               /\ state.feasibility.feasible
               /\ (state.plan = Null \/ state.failureContext # Null)
       IN  /\ (obs'.cap = "planRemediation" /\ obs'.asked) => allowed
           /\ (obs'.cap = "planRemediation" /\ ~allowed) =>
                 (~obs'.success /\ ~obs'.asked /\ state' = state)
           /\ state'.plan # state.plan =>
                 (obs'.cap = "planRemediation" /\ obs'.asked
                    /\ obs'.success)]_vars

C9_Witness ==
    /\ obs.cap = "planRemediation"
    /\ obs.success
    /\ state.plan # Null
    /\ attemptCount > 0

\* C10: verifyPlan starts commands only in a state whose executionResult is
\* present with failedAtStep = -1, and they are the leading verification
\* commands of the plan; called with no plan, with no executionResult or
\* after a failed execution it starts no command, fails and returns the
\* state unchanged.
C10_VerifyOnlyAfterSuccess ==
    [][obs'.cap = "verifyPlan" =>
          /\ obs'.ran # <<>> =>
                /\ state.plan # Null
                /\ state.executionResult # Null
                /\ state.executionResult.failedAtStep = -1
                /\ Len(obs'.ran) <= Len(state.plan.verification)
                /\ \A k \in DOMAIN obs'.ran :
                      obs'.ran[k] = state.plan.verification[k].action
          /\ (\/ state.plan = Null
              \/ state.executionResult = Null
              \/ state.executionResult.failedAtStep # -1) =>
                /\ obs'.ran = <<>>
                /\ ~obs'.success
                /\ state' = state]_vars

C10_Witness ==
    /\ obs.cap = "verifyPlan"
    /\ obs.ran # <<>>
    /\ ~obs.success
    /\ state.verificationResult # Null

\* C11: resolution is observed only in observe mode, only as the outcome of
\* reportFindings, and only with feasibility present.
C11_ObservedAfterAssessment ==
    state.resolution = "observed" =>
        /\ mode = "observe"
        /\ obs.cap = "reportFindings"
        /\ state.feasibility # Null

C13_StopsAtFirstFailure ==
    run.result # Null =>
        LET E == run.result
            n == Len(run.steps)
            allSucceeded ==
                \A k \in DOMAIN E.results : E.results[k].status = "success"
        IN  /\ Len(E.results) <= n
            /\ \A k \in DOMAIN E.results :
                  /\ E.results[k].step = run.steps[k].action
                  /\ E.results[k].status = "success"
                        <=> execCmd(run.raws[k]).success
            /\ E.failedAtStep = -1 <=> allSucceeded
            /\ E.failedAtStep = -1 => Len(E.results) = n
            /\ n = 0 => E = [results |-> <<>>, failedAtStep |-> -1]
            /\ E.failedAtStep # -1 =>
                  /\ E.failedAtStep \in 0..(n - 1)
                  /\ Len(E.results) = E.failedAtStep + 1
                  /\ E.results[E.failedAtStep + 1].status = "failure"
                  /\ \A k \in 1..E.failedAtStep :
                        E.results[k].status = "success"

C13_Witness ==
    /\ run.result # Null
    /\ Len(run.steps) = 3
    /\ run.result.failedAtStep = 1
    /\ ~execCmd(run.raws[3]).success

\* C14: executePlan on a validated plan with no steps fails, starts no
\* command and returns the state unchanged; a plan with no steps never has
\* an executionResult and never leads to resolved.
C14_EmptyStepsNeverExecuted ==
    /\ []((state.plan # Null /\ state.plan.steps = <<>>) =>
            (state.executionResult = Null /\ state.resolution # "resolved"))
    /\ [][(/\ obs'.cap = "executePlan"
           /\ state.plan # Null
           /\ state.planValidated
           /\ state.plan.steps = <<>>) =>
              (~obs'.success /\ obs'.ran = <<>> /\ state' = state)]_vars

C14_Witness ==
    /\ obs.cap = "executePlan"
    /\ ~obs.success
    /\ state.plan # Null
    /\ state.planValidated
    /\ state.plan.steps = <<>>

\* C15: verifyPlan after a successful execution of a plan with no
\* verification commands starts no command, sets verificationResult to
\* {results: [], failedAtStep: -1} and sets resolution to resolved.
C15_EmptyVerificationResolves ==
    [][(/\ obs'.cap = "verifyPlan"
        /\ state.plan # Null
        /\ state.executionResult # Null
        /\ state.executionResult.failedAtStep = -1
        /\ state.plan.verification = <<>>) =>
           /\ obs'.success
           /\ obs'.ran = <<>>
           /\ state'.verificationResult =
                 [results |-> <<>>, failedAtStep |-> -1]
           /\ state'.resolution = "resolved"]_vars

C15_Witness ==
    /\ obs.cap = "verifyPlan"
    /\ state.resolution = "resolved"
    /\ state.plan.verification = <<>>
    /\ state.verificationResult.results = <<>>

\* C16: at most one call of onBatchReady is in flight at any time.
C16_SingleFlight == Len(monitor.inflight) <= 1

C16_Witness ==
    /\ Len(monitor.inflight) = 1
    /\ monitor.isProcessing
    /\ monitor.buffer # <<>>
    /\ Len(monitor.delivered) > Len(monitor.inflight[1].logs)

C19_StopCancelsOnly ==
    [][monitor'.last = "stop" =>
          /\ monitor'.timer = 0
          /\ monitor'.timeouts = {}
          /\ monitor'.buffer = monitor.buffer
          /\ monitor'.isProcessing = monitor.isProcessing
          /\ monitor'.inflight = monitor.inflight
          /\ monitor'.delivered = monitor.delivered]_vars

C19_Witness ==
    /\ monitor.last = "stop"
    /\ monitor.buffer # <<>>
    /\ ~monitor.isProcessing
    /\ monitor.timeouts = {}

\* C20: an event that arrives while a call of onBatchReady is in flight is
\* appended to buffer and not added to the batch in flight; when the call
\* settles, returning or throwing, with a non-empty buffer, one timeout is
\* armed, with delay windowMs if buffer holds fewer than MAX_BUFFER_SIZE
\* events and 0 otherwise; and unless stop is called or the process exits
\* every buffered event is eventually handed to onBatchReady.
C20_BufferedWhileInFlight ==
    /\ [][((monitor'.last = "event" /\ monitor.isProcessing) =>
              (/\ monitor'.inflight = monitor.inflight
               /\ monitor'.delivered = monitor.delivered
               /\ Len(monitor'.buffer) = Len(monitor.buffer) + 1
               /\ SubSeq(monitor'.buffer, 1, Len(monitor.buffer))
                     = monitor.buffer))
           /\ ((monitor'.last \in {"returned", "threw"}) =>
                 (/\ monitor'.buffer = monitor.buffer
                  /\ ~monitor'.isProcessing
                  /\ (monitor.buffer # <<>> =>
                        (/\ monitor'.timer # 0
                         /\ monitor'.timeouts =
                               {[handle |-> monitor'.timer,
                                 delay |-> IF Len(monitor.buffer)
                                                < MAX_BUFFER_SIZE
                                           THEN windowMs ELSE 0]}))
                  /\ (monitor.buffer = <<>> =>
                        monitor'.timeouts = {})))]_vars
    /\ \A id \in 1..MaxEvents :
          (\E k \in DOMAIN monitor.buffer : monitor.buffer[k].id = id)
             ~> (\/ \E k \in DOMAIN monitor.delivered :
                       monitor.delivered[k] = id
                 \/ monitor.stopped
                 \/ monitor.exited)

C20_Witness ==
    /\ monitor.last = "threw"
    /\ Len(monitor.buffer) >= MAX_BUFFER_SIZE
    /\ \E t \in monitor.timeouts : t.delay = 0 /\ t.handle = monitor.timer
    /\ monitor.delivered # <<>>
    /\ ~monitor.stopped

\* C21: the events handed to onBatchReady so far, in the order of the
\* batches, followed by the events still in buffer are the included events
\* in their order of arrival, each once; and unless stop is called or the
\* process exits every included event is eventually handed over.
C21_DeliveredInArrivalOrder ==
    /\ [](monitor.delivered
            \o [k \in DOMAIN monitor.buffer |-> monitor.buffer[k].id]
          = [k \in 1..monitor.arrived |-> k])
    /\ \A id \in 1..MaxEvents :
          (monitor.arrived >= id)
             ~> (\/ Cardinality({k \in DOMAIN monitor.delivered :
                                    monitor.delivered[k] = id}) = 1
                 \/ monitor.stopped
                 \/ monitor.exited)

C21_Witness ==
    /\ monitor.arrived = MaxEvents
    /\ Len(monitor.delivered) = MaxEvents
    /\ monitor.inflight # <<>>
    /\ monitor.inflight[1].trigger = "cap"
    /\ ~monitor.stopped
    /\ ~monitor.exited

\* C22: runOrchestrator returns with idle = true only right after an
\* analyzeIncident call that succeeded and stored no graph, resolution
\* still pending; otherwise it returns only with resolution resolved,
\* observed or dismissed, and idle = false.
C22_IdleOnlyAfterEmptyAnalysis ==
    /\ idle => pc = "done"
    /\ pc = "done" =>
          IF idle
          THEN /\ obs.cap = "analyzeIncident"
               /\ obs.success
               /\ obs.asked
               /\ state.incidentGraph = Null
               /\ state.resolution = "pending"
          ELSE state.resolution \in {"resolved", "observed", "dismissed"}

C22_Witness ==
    /\ pc = "done"
    /\ idle
    /\ obs.cap = "analyzeIncident"

\* C23: when requestApproval is selected in a state whose planValidated is
\* false (no plan, or a plan not validated), the human is not prompted and
\* the state, failureContext included, is unchanged.
C23_ApprovalOnlyWhenValidated ==
    [][(obs'.cap = "requestApproval" /\ ~state.planValidated) =>
          (obs'.prompt = "none" /\ state' = state)]_vars

\* C24: a rejection at requestApproval sets failureContext to
\* {type: user_rejected, reason: the feedback}, planValidated to false,
\* executionResult and verificationResult to absent and leaves plan,
\* feasibility, incidentGraph, logs, resolution and attemptCount unchanged;
\* an approval leaves the incident state unchanged.
C24_RejectionEffects ==
    [][obs'.cap = "requestApproval" =>
          IF obs'.success
          THEN state' = state /\ attemptCount' = attemptCount
          ELSE /\ state'.failureContext # Null
               /\ state'.failureContext.type = "user_rejected"
               /\ state'.failureContext.reason.text = obs'.typed
               /\ obs'.typed \in UserTexts
               /\ ~state'.planValidated
               /\ state'.executionResult = Null
               /\ state'.verificationResult = Null
               /\ state'.plan = state.plan
               /\ state'.feasibility = state.feasibility
               /\ state'.incidentGraph = state.incidentGraph
               /\ state'.logs = state.logs
               /\ state'.resolution = state.resolution
               /\ attemptCount' = attemptCount]_vars

C24_Witness ==
    /\ obs.cap = "requestApproval"
    /\ ~obs.success
    /\ state.plan # Null
    /\ state.failureContext # Null
    /\ state.failureContext.type = "user_rejected"
    /\ attemptCount > 0

\* C25: an escalate call either dismisses, and then resolution becomes
\* dismissed and nothing else changes, or continues, and then the context
\* is appended to the facts, failureContext is cleared, feasibility becomes
\* absent exactly if it was present with feasible = false, and plan,
\* planValidated, executionResult, verificationResult, resolution and
\* attemptCount are unchanged.
C25_EscalateOutcomes ==
    [][obs'.cap = "escalate" =>
          IF obs'.typed = ""
          THEN /\ state' = [state EXCEPT !.resolution = "dismissed"]
               /\ facts' = facts
               /\ attemptCount' = attemptCount
          ELSE /\ Len(facts') = Len(facts) + 1
               /\ SubSeq(facts', 1, Len(facts)) = facts
               /\ facts'[Len(facts')].answer = obs'.typed
               /\ state'.failureContext = Null
               /\ state'.feasibility =
                     (IF state.feasibility # Null
                         /\ ~state.feasibility.feasible
                      THEN Null ELSE state.feasibility)
               /\ state'.plan = state.plan
               /\ state'.planValidated = state.planValidated
               /\ state'.executionResult = state.executionResult
               /\ state'.verificationResult = state.verificationResult
               /\ state'.resolution = state.resolution
               /\ state'.incidentGraph = state.incidentGraph
               /\ state'.logs = state.logs
               /\ attemptCount' = attemptCount]_vars

C25_Witness ==
    /\ obs.cap = "escalate"
    /\ obs.typed # ""
    /\ facts # <<>>
    /\ state.feasibility # Null
    /\ state.feasibility.feasible
    /\ state.executionResult # Null
    /\ state.failureContext = Null

\* C26: a planRemediation that succeeds replaces plan by the new plan and
\* sets planValidated false and executionResult, verificationResult and
\* failureContext absent, leaving logs, incidentGraph, feasibility and
\* resolution unchanged; one that fails (precondition or planner error)
\* leaves the whole state unchanged.
C26_PlanningEffects ==
    [][obs'.cap = "planRemediation" =>
          IF obs'.success
          THEN /\ state'.plan \in PlannerOutputs
               /\ ~state'.planValidated
               /\ state'.executionResult = Null
               /\ state'.verificationResult = Null
               /\ state'.failureContext = Null
               /\ state'.logs = state.logs
               /\ state'.incidentGraph = state.incidentGraph
               /\ state'.feasibility = state.feasibility
               /\ state'.resolution = state.resolution
          ELSE state' = state]_vars

C26_Witness ==
    /\ obs.cap = "planRemediation"
    /\ obs.success
    /\ attemptCount > 0
    /\ state.plan # Null
    /\ state.failureContext = Null

\* C27: validatePlan on a plan with a rejected command reports the first
\* rejected command of plan.steps followed by plan.verification: it fails,
\* failureContext.step is that command, failureContext.type is
\* verification_command_rejected if the command text occurs in
\* plan.verification (also when it occurs in plan.steps) and
\* remediation_command_rejected otherwise, and plan and planValidated =
\* false are unchanged.
C27_FirstRejectedTagged ==
    (check.kind = "plan" /\ check.result # Null) =>
        LET steps == [k \in DOMAIN check.plan.steps |->
                         check.plan.steps[k].action]
            verification == [k \in DOMAIN check.plan.verification |->
                                check.plan.verification[k].action]
            all == steps \o verification
            bad == {k \in DOMAIN all : all[k] # CmdStartCache}
            after == check.result.state
        IN  IF bad = {}
            THEN check.result.success /\ after.planValidated
            ELSE LET first == all[CHOOSE k \in bad : \A j \in bad : k <= j]
                 IN  /\ ~check.result.success
                     /\ after.failureContext # Null
                     /\ after.failureContext.step = first
                     /\ after.failureContext.type =
                           (IF \E k \in DOMAIN verification :
                                  verification[k] = first
                            THEN "verification_command_rejected"
                            ELSE "remediation_command_rejected")
                     /\ after.plan = check.plan
                     /\ ~after.planValidated

C27_Witness ==
    /\ check.kind = "plan"
    /\ check.result # Null
    /\ check.plan.steps = <<Step(CmdStartCache), Step(CmdPs)>>
    /\ check.plan.verification = <<Step(CmdShell), Step(CmdPs)>>
    /\ check.result.state.failureContext.type
          = "verification_command_rejected"

\* C28: a command that passes every pattern rule is accepted exactly if
\* one known container occurs in it as a whole word; with none it is
\* rejected for referencing no known container, with two or more for
\* referencing multiple containers, the reason listing exactly those.
C28_ExactlyOneContainer ==
    (/\ check.kind = "command"
     /\ check.verdict # Null
     /\ Trim(check.command) # <<>>
     /\ \A k \in DOMAIN BLOCKED_PATTERNS :
           ~PatternTest(k, Trim(check.command))) =>
        LET mentioned == check.target.names \cap check.knownContainers
        IN  /\ check.verdict.ok <=> Cardinality(mentioned) = 1
            /\ mentioned = {} =>
                  /\ ~check.verdict.ok
                  /\ check.verdict.reason.text =
                        "Command does not reference any known container"
            /\ Cardinality(mentioned) >= 2 =>
                  /\ ~check.verdict.ok
                  /\ check.verdict.reason.text =
                        "Command references multiple containers"
                  /\ check.verdict.reason.names = mentioned

C28_Witness ==
    /\ check.kind = "command"
    /\ check.verdict # Null
    /\ ~check.verdict.ok
    /\ check.verdict.reason.names = {N_cache, N_api}

\* C29: validateCommand rejects every command that is empty, does not
\* begin with 'docker ' or contains a blocked construct (sh -c, bash -c,
\* a pipe, a redirection, a chaining operator, a substitution, an
\* assignment, a parenthesis, a destructive or remote-code-execution
\* pattern), and 'docker exec api sh -c "echo test"' is rejected as a
\* shell invocation.
C29_BlockedConstructsRejected ==
    (check.kind = "command" /\ check.verdict # Null) =>
        /\ (\/ check.command = <<>>
            \/ ~check.head.docker
            \/ check.tail.contains # "") => ~check.verdict.ok
        /\ check.command = CmdShell =>
              /\ ~check.verdict.ok
              /\ check.verdict.reason.text = "Shell invocation not allowed"

\* C30: when the verification command
\* "docker inspect cache --format '{{.State.Running}}'" has printed false,
\* verifyPlan leaves resolution pending and sets failureContext to
\* verification_failed with that command.
C30_FalseOutputFailsVerification ==
    (/\ obs.cap = "verifyPlan"
     /\ state.verificationResult # Null
     /\ \E k \in DOMAIN state.verificationResult.results :
           /\ state.verificationResult.results[k].step = CmdInspectCache
           /\ state.verificationResult.results[k].stdout
                 = <<"f", "a", "l", "s", "e">>) =>
        /\ state.resolution = "pending"
        /\ state.failureContext # Null
        /\ state.failureContext.type = "verification_failed"
        /\ state.failureContext.step = CmdInspectCache

\* C39: before stop is called, no timeout is armed while a call of
\* onBatchReady is in flight, and a timeout is armed whenever no call is in
\* flight and buffer is not empty.
C39_NoStrandedEvents ==
    (~monitor.stopped /\ ~monitor.exited) =>
        /\ (monitor.inflight # <<>>) = monitor.isProcessing
        /\ monitor.isProcessing =>
              (monitor.timeouts = {} /\ monitor.timer = 0)
        /\ (~monitor.isProcessing /\ monitor.buffer # <<>>) =>
              \E t \in monitor.timeouts : t.handle = monitor.timer

C39_Witness ==
    /\ ~monitor.stopped
    /\ ~monitor.isProcessing
    /\ Len(monitor.buffer) > MAX_BUFFER_SIZE
    /\ monitor.timeouts # {}

\* C40: once stop has been called no further batch is handed to
\* onBatchReady.
C40_NoBatchAfterStop ==
    [][monitor.stopped =>
          (/\ monitor'.delivered = monitor.delivered
           /\ Len(monitor'.inflight) <= Len(monitor.inflight))]_vars

\* C33: a handler called in a state that violates its precondition fails
\* with an error message and returns the state it was given, calls no
\* reasoner and starts no command, and the failure is fed back to the
\* reasoner with the loop going on; validating a validated plan fails with
\* the reason "Plan is already validated." and planValidated stays true.
C33_PreconditionFailureIsInert ==
    [][LET graphless == \/ state.incidentGraph = Null
                        \/ state.incidentGraph.nodes = <<>>
                        \/ state.incidentGraph.root = Null
                        \/ state.incidentGraph.root.index < 0
                        \/ state.incidentGraph.root.index
                              >= Len(state.incidentGraph.nodes)
           unmet ==
               \/ /\ obs'.cap = "analyzeIncident"
                  /\ (state.logs = <<>> \/ state.incidentGraph # Null)
               \/ /\ obs'.cap = "assessFeasibility"
                  /\ graphless
               \/ /\ obs'.cap = "planRemediation"
                  /\ \/ graphless
                     \/ state.feasibility = Null
                     \/ ~state.feasibility.feasible
                     \/ (state.plan # Null /\ state.failureContext = Null)
               \/ /\ obs'.cap = "validatePlan"
                  /\ (state.plan = Null \/ state.planValidated)
               \/ /\ obs'.cap = "executePlan"
                  /\ \/ state.plan = Null
                     \/ ~state.planValidated
                     \/ state.plan.steps = <<>>
               \/ /\ obs'.cap = "verifyPlan"
                  /\ \/ state.plan = Null
                     \/ state.executionResult = Null
                     \/ state.executionResult.failedAtStep # -1
       IN  /\ unmet =>
                 (/\ ~obs'.success
                  /\ obs'.error # ""
                  /\ state' = state
                  /\ ~obs'.asked
                  /\ obs'.ran = <<>>
                  /\ obs'.nudge = "functionResponse"
                  /\ pc' = "loop")
           /\ (obs'.cap = "validatePlan" /\ state.planValidated) =>
                 (/\ obs'.error = "Plan is already validated."
                  /\ state'.planValidated)]_vars

C33_Witness ==
    /\ obs.cap = "validatePlan"
    /\ ~obs.success
    /\ obs.error = "Plan is already validated."
    /\ state.planValidated

\* C34: every incidentGraph stored in the state has all edge endpoints in
\* [0, |nodes|), no self-loop and no cycle, and a root that is an index in
\* range with no incoming edge.
C34_StoredGraphValid ==
    state.incidentGraph # Null =>
        LET g == state.incidentGraph
            n == Len(g.nodes)
            linked(a, b) ==
                \E k \in DOMAIN g.edges :
                    g.edges[k].from = a /\ g.edges[k].to = b
        IN  /\ \A k \in DOMAIN g.edges :
                  /\ g.edges[k].from \in 0..(n - 1)
                  /\ g.edges[k].to \in 0..(n - 1)
                  /\ g.edges[k].from # g.edges[k].to
            /\ \A len \in 2..(n + 1) :
                  \A path \in [1..len -> 0..(n - 1)] :
                      ~(/\ path[1] = path[len]
                        /\ \A i \in 1..(len - 1) :
                              linked(path[i], path[i + 1]))
            /\ g.root # Null
            /\ g.root.index \in 0..(n - 1)
            /\ \A k \in DOMAIN g.edges : g.edges[k].to # g.root.index

\* C36: an exception raised inside an iteration is caught: it is logged
\* and recorded in the audit history, an error message is appended to the
\* reasoner history, the incident state, attemptCount and the facts are
\* unchanged, and the loop goes on with resolution pending.
C36_ExceptionsCaught ==
    [][obs'.cap = "error" =>
          /\ obs'.error = "Unexpected orchestration error"
          /\ obs'.audited
          /\ obs'.nudge = "Error occurred"
          /\ state' = state
          /\ attemptCount' = attemptCount
          /\ facts' = facts
          /\ state'.resolution = "pending"
          /\ pc' = "loop"
          /\ ~idle']_vars

\* C37: once executionResult is present for the current plan, an
\* executePlan call starts no command.
C37_StepsExecutedOnce ==
    [][(obs'.cap = "executePlan" /\ state.executionResult # Null) =>
          obs'.ran = <<>>]_vars

\* C38: right after the human answered an escalate call with context, a
\* planRemediation call in a state with a graph, feasible = true and a plan
\* is not rejected for a plan existing without failure context.
C38_ContinueUnblocksReplanning ==
    [][(/\ obs.cap = "escalate"
        /\ obs.typed # ""
        /\ obs'.cap = "planRemediation"
        /\ state.plan # Null
        /\ state.feasibility # Null
        /\ state.feasibility.feasible) =>
          obs'.error # "Plan already exists without failure context."]_vars

\* C31: withRetry invokes the operation at most 3 times and returns the
\* first success; an error with a status in 400..499 is rethrown at once on
\* whichever attempt it occurs; any other error is retried after 1000 ms and
\* then 2000 ms, and the third failure is thrown without a further delay.
C31_RetryPolicy ==
    LET n == Len(retry.calls)
        clientError(call) == ~call.ok /\ call.status \in 400..499
        retriable(call) == ~call.ok /\ call.status \notin 400..499
    IN  /\ n <= 3
        /\ \A k \in 1..(n - 1) : retriable(retry.calls[k])
        /\ retry.slept = SubSeq(<<1000, 2000>>, 1, Len(retry.slept))
        /\ (n = 0) => (retry.pc = "calling" /\ retry.slept = <<>>)
        /\ (n > 0) =>
              LET last == retry.calls[n]
              IN  /\ last.ok =>
                        (/\ retry.pc = "returned"
                         /\ retry.settled = last
                         /\ Len(retry.slept) = n - 1)
                  /\ clientError(last) =>
                        (/\ retry.pc = "threw"
                         /\ retry.settled = last
                         /\ Len(retry.slept) = n - 1)
                  /\ (retriable(last) /\ n = 3) =>
                        (/\ retry.pc = "threw"
                         /\ retry.settled = last
                         /\ retry.slept = <<1000, 2000>>
                         /\ retry.delay = 0)
                  /\ (retriable(last) /\ n < 3) =>
                        \/ /\ retry.pc = "sleeping"
                           /\ retry.delay = <<1000, 2000>>[n]
                           /\ Len(retry.slept) = n - 1
                        \/ /\ retry.pc = "calling"
                           /\ Len(retry.slept) = n

C31_Witness ==
    /\ retry.pc = "threw"
    /\ Len(retry.calls) = 3
    /\ retry.calls[1].status = 399
    /\ retry.calls[3].status = 500
    /\ retry.slept = <<1000, 2000>>

\* C32 as stated: a response with tool invocations runs the tools and the
\* loop continues, and the first response without tool invocations is
\* returned whenever its text parses as JSON; otherwise one corrective
\* request follows, after which runAgent returns or throws.
C32_TextThatParsesIsReturned ==
    [][/\ runner'.repairs <= 1
       /\ (runner.pc = "cleanup") => (runner'.pc \in {"returned", "threw"})
       /\ (/\ runner.pc = "request"
           /\ runner'.requests = runner.requests + 1
           /\ runner'.response.kind = "content") =>
             (/\ (runner'.response.calls # <<>>) => (runner'.pc = "tools")
              /\ (/\ runner'.response.calls = <<>>
                  /\ runner'.response.is \in {"object", "falsy"}) =>
                    (runner'.pc = "returned")
              /\ (/\ runner'.response.calls = <<>>
                  /\ runner'.response.is \in {"invalid", "absent"}) =>
                    (runner'.pc = "cleanup"))]_vars

\* C32 as amended: a response with tool invocations starts the handler of
\* every call that names a tool; runAgent throws when a call names no tool
\* or a handler throws, and sends the next request when every handler has
\* returned. The first response without tool invocations is returned when
\* its text parses to a JSON value that is truthy; otherwise exactly one
\* corrective request is sent, after which runAgent returns what JSON.parse
\* gives or throws. There is no second repair, no request after the repair,
\* and nothing changes the outcome once runAgent returned or threw.
C32_SingleRepair ==
    [][/\ runner'.repairs <= 1
       /\ (runner.pc = "cleanup") =>
             (/\ runner'.pc \in {"returned", "threw"}
              /\ runner'.repairs = 1
              /\ runner'.requests = runner.requests
              /\ (runner'.pc = "returned") <=>
                    (/\ runner'.response.kind = "content"
                     /\ runner'.response.is \in {"object", "falsy"}
                     /\ runner'.response.tokens[1] # "fence_json"))
       /\ (runner.pc \in {"returned", "threw"}) =>
             (/\ runner'.pc = runner.pc
              /\ runner'.requests = runner.requests
              /\ runner'.repairs = runner.repairs
              /\ runner'.result = runner.result
              /\ runner'.error = runner.error)
       /\ (runner.pc = "tools") =>
             (runner'.pc = IF runner'.last = "threw" THEN "threw"
                           ELSE IF runner'.pending = {} THEN "request"
                           ELSE "tools")
       /\ (/\ runner.pc = "request"
           /\ runner'.requests = runner.requests + 1
           /\ runner'.response.kind = "content") =>
             LET calls == runner'.response.calls
                 named == {k \in DOMAIN calls :
                              calls[k] \in {"inspect_container", "ask_user"}}
             IN  /\ (calls # <<>>) =>
                       (/\ runner'.pending = named
                        /\ runner'.pc = IF named = DOMAIN calls
                                        THEN "tools" ELSE "threw")
                 /\ (calls = <<>> /\ runner'.response.is = "object") =>
                       (/\ runner'.pc = "returned"
                        /\ runner'.result = "object"
                        /\ runner'.repairs = 0)
                 /\ (calls = <<>> /\ runner'.response.is # "object") =>
                       (/\ runner'.pc = "cleanup"
                        /\ runner'.repairs = 0)]_vars

C32_Witness ==
    /\ runner.pc = "returned"
    /\ runner.requests = 2
    /\ runner.repairs = 1
    /\ runner.result = "null"

\* C35: at most one question to the human is outstanding at any moment of
\* a runAgent call of assessFeasibility.
C35_OneQuestionAtATime == runner.prompts <= 1

====
